---- MODULE Spec2Model ----
(***************************************************************************)
(* Model of the special-cases engine of array_api_tests                    *)
(* (src/array_api_tests/test_special_cases.py): the condition primitives,  *)
(* the docstring parser and the verification loops test_unary/test_binary. *)
(*                                                                         *)
(* A Python float is a record [k, s, m]: k is "nan", "inf" or "fin", s is   *)
(* the IEEE sign bit (1 = negative) and m the magnitude of a finite value  *)
(* in thousandths (so 1.0 is m = 1000 and 0.01 is m = 10).                 *)
(* A closure returned by a factory is a record [op, v, c1, c2] naming the  *)
(* inner function and carrying what it captured; Apply calls it.           *)
(* A Python call that may raise returns [exc, val]: exc is "none" or the   *)
(* name of the exception raised.                                           *)
(***************************************************************************)
EXTENDS Integers, Sequences, FiniteSets, TLC

VARIABLES
    call, ret,                                       \* one call of a primitive
    parser, docstring, li, cases, warns, pc, raised, last, \* one parse of a docstring
    test, x1, x2, res, idx, ci, good_example, outcome, asserted, \* one run of a test
    again,                                    \* the run follows another one
    bcast,                                    \* one call of broadcast_shapes
    stubs, unary_params, binary_params, dwarns, parse_calls, dpc \* the collection of the tests

primVars == <<call, ret>>
parseVars == <<parser, docstring, li, cases, warns, pc, raised, last>>
testVars == <<test, x1, x2, res, idx, ci, good_example, outcome, asserted, again, bcast>>
driverVars == <<stubs, unary_params, binary_params, dwarns, parse_calls, dpc>>
vars == <<call, ret, parser, docstring, li, cases, warns, pc, raised, last,
          test, x1, x2, res, idx, ci, good_example, outcome, asserted, again, bcast,
          stubs, unary_params, binary_params, dwarns, parse_calls, dpc>>

\* ------------------------------------------------------------------ floats

F(k, s, m) == [k |-> k, s |-> s, m |-> m]

NaN == F("nan", 0, 0)
NegNaN == F("nan", 1, 0)
Inf == F("inf", 0, 0)
NegInf == F("inf", 1, 0)
PosZero == F("fin", 0, 0)
NegZero == F("fin", 1, 0)
Fin(n) == IF n < 0 THEN F("fin", 1, -n) ELSE F("fin", 0, n)

\* float("nan"), float("inf"), 0.0, 1.0 and math.pi in thousandths
One == Fin(1000)
Pi == Fin(3142)

isnan(x) == x.k = "nan"
isfinite(x) == x.k = "fin"
Num(x) == IF x.s = 1 THEN -x.m ELSE x.m

\* Python's i == v, i < v, i > v on floats: every comparison with NaN is False
FEq(a, b) ==
    /\ ~isnan(a) /\ ~isnan(b)
    /\ a.k = b.k
    /\ IF a.k = "inf" THEN a.s = b.s ELSE Num(a) = Num(b)

FLt(a, b) ==
    /\ ~isnan(a) /\ ~isnan(b)
    /\ IF a.k = "inf" THEN a.s = 1 /\ ~(b.k = "inf" /\ b.s = 1)
       ELSE IF b.k = "inf" THEN b.s = 0
       ELSE Num(a) < Num(b)

FGt(a, b) == FLt(b, a)

FNeg(x) == [x EXCEPT !.s = 1 - x.s]
FAbs(x) == [x EXCEPT !.s = 0]
copysign1(x) == IF x.s = 0 THEN 1 ELSE -1

AbsInt(n) == IF n < 0 THEN -n ELSE n

\* ph.is_pos_zero / ph.is_neg_zero: zero with the sign bit clear / set
is_pos_zero(n) == FEq(n, PosZero) /\ copysign1(n) = 1
is_neg_zero(n) == FEq(n, PosZero) /\ copysign1(n) = -1

\* abs_tol=0.01 of make_rough_eq in the units of m, and math.isclose's default
\* rel_tol=1e-09 as its reciprocal (diff <= rel_tol * |b| is written
\* diff <= |b| \div RelTolInv, the same on integers)
AbsTol == 10
RelTolInv == 1000000000

\* math.isclose(a, b, abs_tol=AbsTol)
isclose(a, b) ==
    IF FEq(a, b) THEN TRUE
    ELSE IF ~isfinite(a) \/ ~isfinite(b) THEN FALSE
    ELSE LET diff == AbsInt(Num(b) - Num(a))
         IN \/ diff <= AbsInt(Num(b)) \div RelTolInv
            \/ diff <= AbsInt(Num(a)) \div RelTolInv
            \/ diff <= AbsTol

\* ------------------------------------------------------- condition closures

NoCond == [op |-> "none"]
Cl(op, v, c1, c2) == [op |-> op, v |-> v, c1 |-> c1, c2 |-> c2]
Cl0(op) == Cl(op, NaN, NoCond, NoCond)

RECURSIVE Apply(_, _)

eq(v, i) == FEq(i, v)
neq(c, i) == ~Apply(c, i)
rough_eq(v, i) == isclose(i, v)
gt(v, i) == FGt(i, v)
lt(v, i) == FLt(i, v)
or_(cond1, cond2, i) == Apply(cond1, i) \/ Apply(cond2, i)
and_(cond1, cond2, i) == Apply(cond1, i) \/ Apply(cond2, i)
not_cond(cond, i) == ~Apply(cond, i)
abs_cond(cond, i) == Apply(cond, FAbs(i))

\* the lambdas of parse_cond
is_integer(i) == isfinite(i) /\ i.m % 1000 = 0
pos_finite(i) == isfinite(i) /\ FGt(i, PosZero)
neg_finite(i) == isfinite(i) /\ FLt(i, PosZero)
copysign_pos(i) == copysign1(i) = 1
copysign_neg(i) == copysign1(i) = -1
nonzero_finite(i) == isfinite(i) /\ ~FEq(i, PosZero)
odd_integer(i) == is_integer(i) /\ Num(i) % 2000 = 1000

\* the condition lambda of even_int_round_case: i % 0.5 == 0
mod_half_zero(i) == isfinite(i) /\ i.m % 500 = 0

\* calling a closure (or a builtin used as one) on the scalar i
Apply(c, i) ==
    CASE c.op = "isnan" -> isnan(i)
      [] c.op = "is_pos_zero" -> is_pos_zero(i)
      [] c.op = "is_neg_zero" -> is_neg_zero(i)
      [] c.op = "eq" -> eq(c.v, i)
      [] c.op = "neq" -> neq(c.c1, i)
      [] c.op = "rough_eq" -> rough_eq(c.v, i)
      [] c.op = "gt" -> gt(c.v, i)
      [] c.op = "lt" -> lt(c.v, i)
      [] c.op = "or_" -> or_(c.c1, c.c2, i)
      [] c.op = "and_" -> and_(c.c1, c.c2, i)
      [] c.op = "not_cond" -> not_cond(c.c1, i)
      [] c.op = "abs_cond" -> abs_cond(c.c1, i)
      [] c.op = "isfinite" -> isfinite(i)
      [] c.op = "pos_finite" -> pos_finite(i)
      [] c.op = "neg_finite" -> neg_finite(i)
      [] c.op = "copysign_pos" -> copysign_pos(i)
      [] c.op = "copysign_neg" -> copysign_neg(i)
      [] c.op = "nonzero_finite" -> nonzero_finite(i)
      [] c.op = "is_integer" -> is_integer(i)
      [] c.op = "odd_integer" -> odd_integer(i)
      [] c.op = "mod_half_zero" -> mod_half_zero(i)

Ok(val) == [exc |-> "none", val |-> val]
Raise(exc) == [exc |-> exc, val |-> NoCond]

make_eq_unsigned_zero(v) ==
    IF isnan(v) THEN Cl0("isnan") ELSE Cl("eq", v, NoCond, NoCond)

make_eq(v) ==
    IF isnan(v) THEN Cl0("isnan")
    ELSE IF FEq(v, PosZero)
         THEN IF is_pos_zero(v) THEN Cl0("is_pos_zero") ELSE Cl0("is_neg_zero")
         ELSE Cl("eq", v, NoCond, NoCond)

make_neq(v) == Cl("neq", NaN, make_eq(v), NoCond)

make_rough_eq(v) ==
    IF ~isfinite(v) THEN Raise("AssertionError")
    ELSE Ok(Cl("rough_eq", v, NoCond, NoCond))

\* the bound not checked
make_gt_unchecked(v) == Ok(Cl("gt", v, NoCond, NoCond))

make_gt(v) ==
    IF isnan(v) THEN Raise("AssertionError") ELSE Ok(Cl("gt", v, NoCond, NoCond))

make_lt(v) ==
    IF isnan(v) THEN Raise("AssertionError") ELSE Ok(Cl("lt", v, NoCond, NoCond))

make_or(cond1, cond2) == Cl("or_", NaN, cond1, cond2)
make_and(cond1, cond2) == Cl("and_", NaN, cond1, cond2)
\* the condition handed back as it is
notify_cond_identity(cond) == cond

notify_cond(cond) == Cl("not_cond", NaN, cond, NoCond)
\* the condition handed back as it is
absify_cond_identity(cond) == cond

absify_cond(cond) == Cl("abs_cond", NaN, cond, NoCond)

\* ------------------------------------------------------------- parse utils
\* Text is a sequence of tokens.  W(s) is a word or phrase of prose; Code(cs)
\* is an inline literal ``...`` whose content cs is a sequence of characters
\* ("NaN", "infinity", "x_i", "x1_i", "x2_i" and "abs(x1_i)" count as one
\* character each: no pattern looks inside them).

W(s) == [t |-> "w", c |-> <<s>>]
Code(cs) == [t |-> "code", c |-> cs]

Digits == {"0", "1", "2", "3", "4"}
int(d) == CASE d = "0" -> 0 [] d = "1" -> 1 [] d = "2" -> 2 [] d = "3" -> 3 [] d = "4" -> 4

\* value *= n and value /= d on a finite float (the quotient rounded to the unit)
FMul(x, n) == [x EXCEPT !.m = x.m * n]
FDiv(x, d) == [x EXCEPT !.m = (2 * x.m + d) \div (2 * d)]

repr_to_value(key) ==
    CASE key = <<"NaN">> -> Ok(NaN)
      [] key = <<"infinity">> -> Ok(Inf)
      [] key = <<"0">> -> Ok(PosZero)
      [] key = <<"1">> -> Ok(One)
      [] OTHER -> Raise("KeyError")

\* r_pi.match(s): (\d?)π(?:/(\d))?  -> [ok, num, den], "" for an absent group
r_pi(s) ==
    LET at == IF Len(s) >= 2 /\ s[1] \in Digits /\ s[2] = "π" THEN 2
              ELSE IF Len(s) >= 1 /\ s[1] = "π" THEN 1 ELSE 0
    IN IF at = 0 THEN [ok |-> FALSE, num |-> "", den |-> ""]
       ELSE [ok |-> TRUE,
             num |-> IF at = 2 THEN s[1] ELSE "",
             den |-> IF Len(s) >= at + 2 /\ s[at + 1] = "/" /\ s[at + 2] \in Digits
                     THEN s[at + 2] ELSE ""]

\* lines 213-217: math.pi times the numerator over the denominator
pi_value(pi_m) ==
    IF pi_m.den = "" THEN Ok(IF pi_m.num # "" THEN FMul(Pi, int(pi_m.num)) ELSE Pi)
    ELSE IF int(pi_m.den) = 0 THEN Raise("ZeroDivisionError")
    ELSE Ok(FDiv(IF pi_m.num # "" THEN FMul(Pi, int(pi_m.num)) ELSE Pi,
                 int(pi_m.den)))

\* lines 212-219: the value of the unsigned text, pi_m being r_pi.match of it
unsigned_value(body, pi_m) == IF pi_m.ok THEN pi_value(pi_m) ELSE repr_to_value(body)

\* the sign dropped
parse_value_unsigned(sign, r) == r

\* lines 220-222: value *= -1 under a "-" sign
parse_value_sign(sign, r) ==
    IF r.exc # "none" THEN r
    ELSE IF sign = "-" THEN Ok(FNeg(r.val)) ELSE r

\* r_value.match(value_str): ([+-]?)(.+) -> the groups
r_value(value_str) ==
    IF Len(value_str) >= 2 /\ value_str[1] \in {"+", "-"}
    THEN [ok |-> TRUE, groups |-> <<value_str[1], Tail(value_str)>>]
    ELSE IF Len(value_str) >= 1 THEN [ok |-> TRUE, groups |-> <<"", value_str>>]
    ELSE [ok |-> FALSE, groups |-> <<"", << >> >>]

parse_value_groups(m) ==
    IF ~m.ok THEN Raise("ValueParseError")
    ELSE parse_value_sign(m.groups[1], unsigned_value(m.groups[2], r_pi(m.groups[2])))

parse_value(value_str) == parse_value_groups(r_value(value_str))

\* r_code.match(s): the text starts with an inline literal
r_code(s) == Len(s) >= 1 /\ s[1].t = "code"

\* r_approx_value.match(s)
r_approx_value(s) ==
    /\ Len(s) >= 2
    /\ s[1] = W("an implementation-dependent approximation to")
    /\ s[2].t = "code"

\* r_gt.match(s), r_lt.match(s), r_either_code.match(s)
r_gt(s) == Len(s) >= 2 /\ s[1] = W("greater than") /\ s[2].t = "code"
r_lt(s) == Len(s) >= 2 /\ s[1] = W("less than") /\ s[2].t = "code"
r_either_code(s) ==
    /\ Len(s) >= 4
    /\ s[1] = W("either") /\ s[2].t = "code" /\ s[3] = W("or") /\ s[4].t = "code"

\* r_not.match(s): "not (?:equal to )?(.+)" -> the group, << >> when no match
r_not(s) ==
    IF Len(s) >= 3 /\ s[1] = W("not") /\ s[2] = W("equal to") THEN SubSeq(s, 3, Len(s))
    ELSE IF Len(s) >= 2 /\ s[1] = W("not") THEN Tail(s)
    ELSE << >>

\* Python's  a in b  on strings: a is a contiguous part of b
IsSubstring(a, b) ==
    \E i \in 0..(Len(b) - Len(a)) : SubSeq(b, i + 1, i + Len(a)) = a

PositiveFinitePhrase ==
    <<W("a"), W("positive"), W("(i.e.,"), W("greater than"), Code(<<"0">>), W(")"),
      W("finite"), W("number")>>
NegativeFinitePhrase ==
    <<W("a"), W("negative"), W("(i.e.,"), W("less than"), Code(<<"0">>), W(")"),
      W("finite"), W("number")>>

\* the inline literals a condition phrase hands to parse_value (m.group(1),
\* m.group(2) of r_code, r_gt, r_lt or r_either_code), << >> when it has none
cond_literal1(cond_str) ==
    IF r_code(cond_str) THEN cond_str[1].c
    ELSE IF r_gt(cond_str) \/ r_lt(cond_str) \/ r_either_code(cond_str) THEN cond_str[2].c
    ELSE << >>
cond_literal2(cond_str) == IF r_either_code(cond_str) THEN cond_str[4].c ELSE << >>

eq_of(value) == IF value.exc # "none" THEN value ELSE Ok(make_eq(value.val))
gt_of(value) == IF value.exc # "none" THEN value ELSE make_gt(value.val)
lt_of(value) == IF value.exc # "none" THEN value ELSE make_lt(value.val)
either_of(v1, v2) ==
    IF v1.exc # "none" THEN v1
    ELSE IF v2.exc # "none" THEN v2
    ELSE Ok(make_or(make_eq(v1.val), make_eq(v2.val)))

\* lines 259-301 of parse_cond: the condition of a phrase without its "not";
\* value and v2 are parse_value of the phrase's literals
cond_of(cond_str, value, v2) ==
    IF r_code(cond_str) THEN eq_of(value)
    ELSE IF r_gt(cond_str) THEN gt_of(value)
    ELSE IF r_lt(cond_str) THEN lt_of(value)
    ELSE IF r_either_code(cond_str) THEN either_of(value, v2)
    ELSE IF cond_str \in {<<W("finite")>>, <<W("a"), W("finite"), W("number")>>}
         THEN Ok(Cl0("isfinite"))
    ELSE IF IsSubstring(cond_str, PositiveFinitePhrase) THEN Ok(Cl0("pos_finite"))
    ELSE IF cond_str = NegativeFinitePhrase THEN Ok(Cl0("neg_finite"))
    ELSE IF cond_str = <<W("positive")>> THEN Ok(Cl0("copysign_pos"))
    ELSE IF cond_str = <<W("negative")>> THEN Ok(Cl0("copysign_neg"))
    ELSE IF IsSubstring(<<W("nonzero"), W("finite")>>, cond_str)
         THEN Ok(Cl0("nonzero_finite"))
    ELSE IF cond_str = <<W("an"), W("integer"), W("value")>> THEN Ok(Cl0("is_integer"))
    ELSE IF cond_str = <<W("an"), W("odd"), W("integer"), W("value")>>
         THEN Ok(Cl0("odd_integer"))
    ELSE Raise("ValueParseError")

parse_cond_base(cond_str) ==
    cond_of(cond_str, parse_value(cond_literal1(cond_str)),
            parse_value(cond_literal2(cond_str)))

\* lines 253-257: the phrase without a leading "not"
strip_not(cond_str) == IF r_not(cond_str) # << >> THEN r_not(cond_str) ELSE cond_str

\* lines 303-305
notify_if(notify, base) ==
    IF base.exc # "none" THEN base
    ELSE IF notify THEN Ok(notify_cond(base.val)) ELSE base

parse_cond(cond_str) ==
    notify_if(r_not(cond_str) # << >>, parse_cond_base(strip_not(cond_str)))

\* the expr_template of lines 259-301: a sequence of pieces of text, str(value)
\* standing as the value itself; << >> when the phrase is not decoded
expr_of(cond_str, value, v2) ==
    IF r_code(cond_str) THEN <<"{} == ", value.val>>
    ELSE IF r_gt(cond_str) THEN <<"{} > ", value.val>>
    ELSE IF r_lt(cond_str) THEN <<"{} < ", value.val>>
    ELSE IF r_either_code(cond_str) THEN <<"{} == ", value.val, " or {} == ", v2.val>>
    ELSE IF cond_str \in {<<W("finite")>>, <<W("a"), W("finite"), W("number")>>}
         THEN <<"isfinite({})">>
    ELSE IF IsSubstring(cond_str, PositiveFinitePhrase) THEN <<"isfinite({}) and {} > 0">>
    ELSE IF cond_str = NegativeFinitePhrase THEN <<"isfinite({}) and {} < 0">>
    ELSE IF cond_str = <<W("positive")>> THEN <<"copysign(1, {}) == 1">>
    ELSE IF cond_str = <<W("negative")>> THEN <<"copysign(1, {}) == -1">>
    ELSE IF IsSubstring(<<W("nonzero"), W("finite")>>, cond_str)
         THEN <<"copysign(1, {}) == -1">>
    ELSE IF cond_str = <<W("an"), W("integer"), W("value")>> THEN <<"{}.is_integer()">>
    ELSE IF cond_str = <<W("an"), W("odd"), W("integer"), W("value")>>
         THEN <<"{}.is_integer() and {} % 2 == 1">>
    ELSE << >>

expr_base(cond_str) ==
    expr_of(cond_str, parse_value(cond_literal1(cond_str)),
            parse_value(cond_literal2(cond_str)))

\* line 305: f"not ({expr_template})"
notify_expr(notify, base) == IF notify THEN <<"not (">> \o base \o <<")">> ELSE base

\* the expr_template that parse_cond returns with the condition
expr_template(cond_str) ==
    IF parse_cond(cond_str).exc # "none" THEN << >>
    ELSE notify_expr(r_not(cond_str) # << >>, expr_base(strip_not(cond_str)))

result_literal(result_str) ==
    IF r_code(result_str) THEN result_str[1].c
    ELSE IF r_approx_value(result_str) THEN result_str[2].c
    ELSE << >>

rough_eq_of(value) == IF value.exc # "none" THEN value ELSE make_rough_eq(value.val)

\* the approximate result checked like an exact one
result_of_exact_only(result_str, value) ==
    IF r_code(result_str) \/ r_approx_value(result_str) THEN eq_of(value)
    ELSE Raise("ValueParseError")

\* lines 311-320, value being parse_value of the phrase's literal
result_of(result_str, value) ==
    IF r_code(result_str) THEN eq_of(value)
    ELSE IF r_approx_value(result_str) THEN rough_eq_of(value)
    ELSE Raise("ValueParseError")

parse_result(result_str) == result_of(result_str, parse_value(result_literal(result_str)))

\* --------------------------------------------------------- pattern matching
\* A compiled pattern is a sequence of elements: a literal token, "(.+)"
\* (any), ".+" (anync, no group), "(.+signs?)" (signs: text ending in the word
\* sign or signs) and "([a-z]+)" (word: one lower-case word).

Lit(tok) == [p |-> "lit", tok |-> tok]
Dots == [p |-> "any", tok |-> W("")]
AnyNC == [p |-> "anync", tok |-> W("")]
Signs == [p |-> "signs", tok |-> W("")]
Word == [p |-> "word", tok |-> W("")]
Lits(toks) == [n \in 1..Len(toks) |-> Lit(toks[n])]

LowerWords == {W("positive"), W("negative"), W("finite"), W("nonzero"), W("a"), W("an")}

NoMatch == [ok |-> FALSE, groups |-> << >>]

MaxOf(S) == CHOOSE n \in S : \A k \in S : k <= n

\* pattern.match at token si of s, from element pi on: greedy, backtracking
RECURSIVE MatchAt(_, _, _, _)
MatchAt(pat, pi, s, si) ==
    IF pi > Len(pat) THEN [ok |-> TRUE, groups |-> << >>]
    ELSE IF si > Len(s) THEN NoMatch
    ELSE IF pat[pi].p = "lit" THEN
        IF s[si] = pat[pi].tok THEN MatchAt(pat, pi + 1, s, si + 1) ELSE NoMatch
    ELSE IF pat[pi].p = "word" THEN
        IF s[si] \in LowerWords
        THEN LET r == MatchAt(pat, pi + 1, s, si + 1)
             IN IF r.ok THEN [ok |-> TRUE, groups |-> << <<s[si]>> >> \o r.groups]
                ELSE NoMatch
        ELSE NoMatch
    ELSE
        LET ks == {k \in 1..(Len(s) - si + 1) :
                      /\ pat[pi].p = "signs" =>
                             s[si + k - 1] \in {W("sign"), W("signs")}
                      /\ MatchAt(pat, pi + 1, s, si + k).ok}
        IN IF ks = {} THEN NoMatch
           ELSE LET k == MaxOf(ks)
                    r == MatchAt(pat, pi + 1, s, si + k)
                IN [ok |-> TRUE,
                    groups |-> IF pat[pi].p = "anync" THEN r.groups
                               ELSE <<SubSeq(s, si, si + k - 1)>> \o r.groups]

\* pattern.search(s): the match at the leftmost token where one starts
Search(pat, s) ==
    LET starts == {si \in 1..Len(s) : MatchAt(pat, 1, s, si).ok}
    IN IF starts = {} THEN NoMatch
       ELSE MatchAt(pat, 1, s, CHOOSE si \in starts : \A k \in starts : si <= k)

If == W("If")
Is == W("is")
Comma == W(",")
And == W("and")
TheResult == W("the result")
Dot == W(".")
Dash == W("  -")
x_i == Code(<<"x_i">>)
x1_i == Code(<<"x1_i">>)
x2_i == Code(<<"x2_i">>)

\* r_case.match(line): "\s+-\s*(.*)\.": an indented dash, then the text up to
\* the last full stop of the line -> [ok, groups]
r_case(line) ==
    LET dots == {n \in 2..Len(line) : line[n] = Dot}
    IN IF Len(line) >= 2 /\ line[1] = Dash /\ dots # {}
       THEN [ok |-> TRUE, groups |-> <<SubSeq(line, 2, MaxOf(dots) - 1)>>]
       ELSE NoMatch

\* r_remaining_case.search(case): "In the remaining cases.+"
r_remaining_case(case) ==
    \E n \in 1..(Len(case) - 1) : case[n] = W("In the remaining cases")

\* r_redundant_case.search(case):
\* "result.+determined by the rule already stated above"
r_redundant_case(case) ==
    \E a \in 1..Len(case), b \in 1..Len(case) :
        /\ a < b
        /\ case[a] = TheResult
        /\ case[b] = W("determined by the rule already stated above")

\* ------------------------------------------------------------- unary cases
\* A result check is a record [op, sign, c]; ApplyCheck calls it on the
\* inputs and the result.

Chk(op, sign, c) == [op |-> op, sign |-> sign, c |-> c]

r_unary_case == Lits(<<If, x_i, Is>>) \o <<Dots>> \o Lits(<<Comma, TheResult, Is>>) \o <<Dots>>

r_even_int_round_case ==
    Lits(<<If, W("two integers are equally close to"), x_i, Comma, TheResult, Is,
           W("the even integer closest to"), x_i>>)

\* float(Decimal(i).to_integral_exact(ROUND_HALF_EVEN)) of a finite i
round_half_even(i) ==
    LET n == Num(i)
        q == n \div 1000
        r == n % 1000
    IN Fin(1000 * (IF r < 500 THEN q
                   ELSE IF r > 500 THEN q + 1
                   ELSE IF q % 2 = 0 THEN q ELSE q + 1))

UCase(cond, check_result) == [cond |-> cond, check_result |-> check_result]

even_int_round_case == UCase(Cl0("mod_half_zero"), Chk("round_half_even", "", NoCond))

\* lines 368-371: the case of a parsed condition and a parsed result check
unary_case_of(cond, check_result) ==
    IF cond.exc # "none" THEN cond
    ELSE IF check_result.exc # "none" THEN check_result
    ELSE Ok(UCase(cond.val, Chk("lambda_r", "", check_result.val)))

\* UnaryCase.from_strings(cond_str, result_str)
from_strings(cond_str, result_str) ==
    unary_case_of(parse_cond(cond_str), parse_result(result_str))

\* One pass of a docstring loop body gives [kind, exc, case, pat]: kind is
\* "case" (a case is appended), "warn_line", "warn_value" or "warn_case" (one
\* warning), "skip" (nothing) or "raise" (exc escapes the function); pat
\* names the pattern that matched, "" when none did.
Step(kind, exc, case, pat) == [kind |-> kind, exc |-> exc, case |-> case, pat |-> pat]

\* the failed bullet appended all the same
try_made_no_continue(made, pat) ==
    IF made.exc = "none" THEN Step("case", "none", made.val, pat)
    ELSE IF made.exc = "ValueParseError" THEN Step("case", "none", NoCond, pat)
    ELSE Step("raise", made.exc, NoCond, pat)

\* the try / except ValueParseError around the construction of a case
\* (lines 405-410, 734-740)
try_made(made, pat) ==
    IF made.exc = "none" THEN Step("case", "none", made.val, pat)
    ELSE IF made.exc = "ValueParseError" THEN Step("warn_value", "none", NoCond, pat)
    ELSE Step("raise", made.exc, NoCond, pat)

\* the redundant bullet skipped without a warning by the unary parser too
unary_unmatched_redundant(case) ==
    IF Search(r_even_int_round_case, case).ok
    THEN Step("case", "none", even_int_round_case, "r_even_int_round_case")
    ELSE IF ~r_remaining_case(case) /\ ~r_redundant_case(case)
         THEN Step("warn_case", "none", NoCond, "")
    ELSE Step("skip", "none", NoCond, "")

\* lines 411-415: the bullet is not matched by r_unary_case
unary_unmatched(case) ==
    IF Search(r_even_int_round_case, case).ok
    THEN Step("case", "none", even_int_round_case, "r_even_int_round_case")
    ELSE IF ~r_remaining_case(case) THEN Step("warn_case", "none", NoCond, "")
    ELSE Step("skip", "none", NoCond, "")

\* lines 404-415, m being r_unary_case.search(case)
unary_matched(case, m) ==
    IF m.ok THEN try_made(from_strings(m.groups[1], m.groups[2]), "r_unary_case")
    ELSE unary_unmatched(case)

unary_case_text(case) == unary_matched(case, Search(r_unary_case, case))

\* lines 399-415: the body of the loop of parse_unary_docstring
unary_line(line) ==
    IF ~r_case(line).ok THEN Step("warn_line", "none", NoCond, "")
    ELSE unary_case_text(r_case(line).groups[1])

\* ------------------------------------------------------------ binary cases
\* A binary condition is a record [op, sign, c, cs]: op names the inner
\* function, c is the unary closure it captured, cs the conditions an
\* AndCondFactory joined.

BCl(op, sign, c, cs) == [op |-> op, sign |-> sign, c |-> c, cs |-> cs]

signer(sign, i) == IF sign = "-" THEN FNeg(i) ELSE i

\* the signs compared as numbers, a zero having none
same_sign_numeric(i1, i2) ==
    (IF isnan(i1) \/ FEq(i1, PosZero) THEN 0 ELSE copysign1(i1))
        = (IF isnan(i2) \/ FEq(i2, PosZero) THEN 0 ELSE copysign1(i2))

same_sign(i1, i2) == copysign1(i1) = copysign1(i2)
diff_sign(i1, i2) == ~same_sign(i1, i2)

\* the inner functions cond(i1, i2) of ValueCondFactory and SignCondFactory
ApplyB0(c, i1, i2) ==
    CASE c.op = "i1_eq" -> Apply(make_eq(signer(c.sign, i2)), i1)
      [] c.op = "i2_eq" -> Apply(make_eq(signer(c.sign, i1)), i2)
      [] c.op = "i1" -> Apply(c.c, i1)
      [] c.op = "i2" -> Apply(c.c, i2)
      [] c.op = "either" -> Apply(c.c, i1) \/ Apply(c.c, i2)
      [] c.op = "both" -> Apply(c.c, i1) /\ Apply(c.c, i2)
      [] c.op = "same_sign" -> same_sign(i1, i2)
      [] c.op = "diff_sign" -> diff_sign(i1, i2)

\* BinaryCond.__call__, with the cond of AndCondFactory: all(...)
ApplyB(c, i1, i2) ==
    IF c.op = "all" THEN \A n \in 1..Len(c.cs) : ApplyB0(c.cs[n], i1, i2)
    ELSE ApplyB0(c, i1, i2)

\* UnaryResultCheck.__call__(i, result)
ApplyCheckU(chk, i, result) ==
    CASE chk.op = "lambda_r" -> Apply(chk.c, result)
      [] chk.op = "round_half_even" -> FEq(result, round_half_even(i))

\* BinaryResultCheck.__call__(i1, i2, result)
ApplyCheckB(chk, i1, i2, result) ==
    CASE chk.op = "eq_i1" -> Apply(make_eq(signer(chk.sign, i1)), result)
      [] chk.op = "eq_i2" -> Apply(make_eq(signer(chk.sign, i2)), result)
      [] chk.op = "res" -> Apply(chk.c, result)
      [] chk.op = "sign_pos" ->
            isnan(result) \/ FGt(result, PosZero) \/ is_pos_zero(result)
      [] chk.op = "sign_neg" ->
            isnan(result) \/ FLt(result, PosZero) \/ is_neg_zero(result)

\* r_array_element.match(group): ``([+-]?)x([12])_i`` -> [ok, sign, input]
r_array_element(group) ==
    LET c == group[1].c
        name == c[Len(c)]
    IN IF /\ Len(group) >= 1 /\ group[1].t = "code"
          /\ name \in {"x1_i", "x2_i"}
          /\ \/ Len(c) = 1
             \/ Len(c) = 2 /\ c[1] \in {"+", "-"}
       THEN [ok |-> TRUE,
             sign |-> IF Len(c) = 2 THEN c[1] ELSE "",
             input |-> IF name = "x1_i" THEN "1" ELSE "2"]
       ELSE [ok |-> FALSE, sign |-> "", input |-> ""]

\* the factories of a pattern, as data
ValueCondFactory(input_, re_groups_i, abs_) ==
    [f |-> "value", input_ |-> input_, re_groups_i |-> re_groups_i, abs_ |-> abs_,
     fs |-> << >>]
SignCondFactory(re_groups_i) ==
    [f |-> "sign", input_ |-> "", re_groups_i |-> re_groups_i, abs_ |-> FALSE,
     fs |-> << >>]
AndCondFactory(fs) ==
    [f |-> "and", input_ |-> "", re_groups_i |-> 0, abs_ |-> FALSE, fs |-> fs]
ResultCheckFactory(re_groups_i) == [f |-> "result", re_groups_i |-> re_groups_i]
ResultSignCheckFactory(re_groups_i) == [f |-> "result_sign", re_groups_i |-> re_groups_i]

\* the sign of the named element dropped
element_cond_unsigned(fac, m) ==
    IF fac.abs_ THEN Raise("AssertionError")
    ELSE IF fac.input_ = "i1" THEN Ok(BCl("i1_eq", "", NoCond, << >>))
    ELSE IF fac.input_ = "i2" THEN Ok(BCl("i2_eq", "", NoCond, << >>))
    ELSE Raise("AssertionError")

\* lines 449-472: the group names an array element
element_cond(fac, m) ==
    IF fac.abs_ THEN Raise("AssertionError")
    ELSE IF fac.input_ = "i1" THEN Ok(BCl("i1_eq", m.sign, NoCond, << >>))
    ELSE IF fac.input_ = "i2" THEN Ok(BCl("i2_eq", m.sign, NoCond, << >>))
    ELSE Raise("AssertionError")

\* the parsed condition asked of the first operand only
input_cond_first_only(fac, _cond) ==
    IF fac.input_ = "i2" THEN Ok(BCl("i2", "", _cond, << >>))
    ELSE Ok(BCl("i1", "", _cond, << >>))

\* lines 476-510: _cond is the parsed condition, wrapped by absify_cond under abs_
input_cond(fac, _cond) ==
    IF fac.input_ = "i1" THEN Ok(BCl("i1", "", _cond, << >>))
    ELSE IF fac.input_ = "i2" THEN Ok(BCl("i2", "", _cond, << >>))
    ELSE IF fac.input_ = "either" THEN Ok(BCl("either", "", _cond, << >>))
    ELSE Ok(BCl("both", "", _cond, << >>))

\* lines 474-510, parsed being parse_cond(group)
parsed_cond(fac, parsed) ==
    IF parsed.exc # "none" THEN parsed
    ELSE input_cond(fac, IF fac.abs_ THEN absify_cond(parsed.val) ELSE parsed.val)

\* ValueCondFactory.__call__(groups), on group = groups[self.re_groups_i]
value_cond_group(fac, group) ==
    IF r_array_element(group).ok THEN element_cond(fac, r_array_element(group))
    ELSE parsed_cond(fac, parse_cond(group))

value_cond(fac, groups) == value_cond_group(fac, groups[fac.re_groups_i + 1])

\* SignCondFactory.__call__(groups), on group = groups[self.re_groups_i]
sign_cond_group(group) ==
    IF group = <<W("the same"), W("mathematical"), W("sign")>>
    THEN Ok(BCl("same_sign", "", NoCond, << >>))
    ELSE IF group = <<W("different"), W("mathematical"), W("signs")>>
    THEN Ok(BCl("diff_sign", "", NoCond, << >>))
    ELSE Raise("ValueParseError")

sign_cond(fac, groups) == sign_cond_group(groups[fac.re_groups_i + 1])

simple_cond(fac, groups) ==
    IF fac.f = "value" THEN value_cond(fac, groups) ELSE sign_cond(fac, groups)

\* line 518: the factories are called in order and the first exception leaves
\* the list comprehension
first_raise(made) ==
    made[CHOOSE n \in 1..Len(made) :
            /\ made[n].exc # "none"
            /\ \A k \in 1..(n - 1) : made[k].exc = "none"]

\* lines 518-524, made being the outcome of each factory
all_of(made) ==
    IF \E n \in 1..Len(made) : made[n].exc # "none" THEN first_raise(made)
    ELSE Ok(BCl("all", "", NoCond, [n \in 1..Len(made) |-> made[n].val]))

\* AndCondFactory.__call__(groups)
and_cond(fac, groups) ==
    all_of([n \in 1..Len(fac.fs) |-> simple_cond(fac.fs[n], groups)])

cond_factory(fac, groups) ==
    IF fac.f = "and" THEN and_cond(fac, groups) ELSE simple_cond(fac, groups)

\* any sign word taken for "positive"
result_sign_check_any_word(group) == Ok(Chk("sign_pos", "", NoCond))

\* ResultSignCheckFactory.__call__(groups), on group = groups[self.re_groups_i]
result_sign_check(group) ==
    IF group = <<W("positive")>> THEN Ok(Chk("sign_pos", "", NoCond))
    ELSE IF group = <<W("negative")>> THEN Ok(Chk("sign_neg", "", NoCond))
    ELSE Raise("ValueParseError")

\* lines 567-588: the result is an array element
element_check(m) == Ok(Chk(IF m.input = "1" THEN "eq_i1" ELSE "eq_i2", m.sign, NoCond))

\* lines 590-595, parsed being parse_result(group)
parsed_check(parsed) ==
    IF parsed.exc # "none" THEN parsed ELSE Ok(Chk("res", "", parsed.val))

\* ResultCheckFactory.__call__(groups), on group = groups[self.re_groups_i]
result_check(group) ==
    IF r_array_element(group).ok THEN element_check(r_array_element(group))
    ELSE parsed_check(parse_result(group))

check_result_factory(fac, groups) ==
    IF fac.f = "result_sign" THEN result_sign_check(groups[fac.re_groups_i + 1])
    ELSE result_check(groups[fac.re_groups_i + 1])

BCase(cond, check_result) == [cond |-> cond, check_result |-> check_result]

\* line 637: BinaryCase(cond, check_result) of the two factories' outcomes
binary_case_of(cond, check_result) ==
    IF cond.exc # "none" THEN cond
    ELSE IF check_result.exc # "none" THEN check_result
    ELSE Ok(BCase(cond.val, check_result.val))

\* BinaryCaseFactory.__call__(groups)
make_case(entry, groups) ==
    binary_case_of(cond_factory(entry.cond_factory, groups),
                   check_result_factory(entry.check_result_factory, groups))

Entry(name, pattern, cf, rf) ==
    [name |-> name, pattern |-> pattern, cond_factory |-> cf,
     check_result_factory |-> rf]

\* "the result has a ([a-z]+) mathematical sign"
ResultHasSign ==
    Lits(<<TheResult, W("has a")>>) \o <<Word>> \o Lits(<<W("mathematical"), W("sign")>>)
HaveSigns == Lits(<<If, x1_i, And, x2_i, W("have")>>) \o <<Signs>>
ResultIs == Lits(<<Comma, TheResult, Is>>) \o <<Dots>>

FourClause ==
    Entry("FourClause",
          Lits(<<If, x1_i, Is>>) \o <<Dots>> \o Lits(<<Comma, x1_i, Is>>) \o <<Dots>>
              \o Lits(<<Comma, x2_i, Is>>) \o <<Dots>>
              \o Lits(<<Comma, And, x2_i, Is>>) \o <<Dots>> \o ResultIs,
          AndCondFactory(<<ValueCondFactory("i1", 0, FALSE), ValueCondFactory("i1", 1, FALSE),
                           ValueCondFactory("i2", 2, FALSE), ValueCondFactory("i2", 3, FALSE)>>),
          ResultCheckFactory(4))
ThreeClause112 ==
    Entry("ThreeClause112",
          Lits(<<If, x1_i, Is>>) \o <<Dots>> \o Lits(<<Comma, x1_i, Is>>) \o <<Dots>>
              \o Lits(<<Comma, And, x2_i, Is>>) \o <<Dots>> \o ResultIs,
          AndCondFactory(<<ValueCondFactory("i1", 0, FALSE), ValueCondFactory("i1", 1, FALSE),
                           ValueCondFactory("i2", 2, FALSE)>>),
          ResultCheckFactory(3))
ThreeClause122 ==
    Entry("ThreeClause122",
          Lits(<<If, x1_i, Is>>) \o <<Dots>> \o Lits(<<Comma, x2_i, Is>>) \o <<Dots>>
              \o Lits(<<Comma, And, x2_i, Is>>) \o <<Dots>> \o ResultIs,
          AndCondFactory(<<ValueCondFactory("i1", 0, FALSE), ValueCondFactory("i2", 1, FALSE),
                           ValueCondFactory("i2", 2, FALSE)>>),
          ResultCheckFactory(3))
TwoClause ==
    Entry("TwoClause",
          Lits(<<If, x1_i, Is>>) \o <<Dots>> \o Lits(<<And, x2_i, Is>>) \o <<Dots>>
              \o ResultIs,
          AndCondFactory(<<ValueCondFactory("i1", 0, FALSE), ValueCondFactory("i2", 1, FALSE)>>),
          ResultCheckFactory(2))
AbsClause ==
    Entry("AbsClause",
          Lits(<<If, Code(<<"abs(x1_i)">>), Is>>) \o <<Dots>> \o Lits(<<And, x2_i, Is>>)
              \o <<Dots>> \o ResultIs,
          AndCondFactory(<<ValueCondFactory("i1", 0, TRUE), ValueCondFactory("i2", 1, FALSE)>>),
          ResultCheckFactory(2))
EitherClause ==
    Entry("EitherClause",
          Lits(<<If, W("either"), x1_i, W("or"), x2_i, Is>>) \o <<Dots>> \o ResultIs,
          ValueCondFactory("either", 0, FALSE),
          ResultCheckFactory(1))
SignClause ==
    Entry("SignClause",
          HaveSigns \o Lits(<<Comma>>) \o ResultHasSign,
          SignCondFactory(0),
          ResultSignCheckFactory(1))
SignBothClause ==
    Entry("SignBothClause",
          HaveSigns \o Lits(<<And, W("are both")>>) \o <<Dots>> \o Lits(<<Comma>>)
              \o ResultHasSign,
          AndCondFactory(<<SignCondFactory(0), ValueCondFactory("both", 1, FALSE)>>),
          ResultSignCheckFactory(2))
SignUnlessClause ==
    Entry("SignUnlessClause",
          HaveSigns \o Lits(<<Comma>>) \o ResultHasSign
              \o Lits(<<W(" ,"), W("unless"), TheResult, Is>>) \o <<Dots>>
              \o Lits(<<Dot, If, TheResult, Is, Code(<<"NaN">>), Comma,
                        W("the \"sign\" of"), Code(<<"NaN">>), Is,
                        W("implementation-defined"), Dot>>),
          SignCondFactory(0),
          ResultSignCheckFactory(1))
EvenIfClause ==
    Entry("EvenIfClause",
          Lits(<<If, x2_i, Is>>) \o <<Dots>> \o ResultIs
              \o Lits(<<Comma, W("even if"), x1_i, Is>>) \o <<AnyNC>>,
          ValueCondFactory("i2", 0, FALSE),
          ResultCheckFactory(1))

two_clause_first ==
    <<TwoClause, FourClause, ThreeClause112, ThreeClause122, AbsClause, EitherClause,
      SignClause, SignBothClause, SignUnlessClause, EvenIfClause>>

\* the dict, in insertion order
binary_pattern_to_case_factory ==
    <<FourClause, ThreeClause112, ThreeClause122, TwoClause, AbsClause, EitherClause,
      SignClause, SignBothClause, SignUnlessClause, EvenIfClause>>

\* lines 741-743: the else of the for loop, no pattern having matched
binary_unmatched(case) ==
    IF ~r_remaining_case(case) THEN Step("warn_case", "none", NoCond, "")
    ELSE Step("skip", "none", NoCond, "")

\* lines 732-743: the for ... else over the dict, from its n-th item on
RECURSIVE try_patterns(_, _, _)

\* lines 733-740, m being pattern.search(case) of the n-th item
try_matched(table, n, case, m) ==
    IF m.ok THEN try_made(make_case(table[n], m.groups), table[n].name)
    ELSE try_patterns(table, n + 1, case)

try_patterns(table, n, case) ==
    IF n > Len(table) THEN binary_unmatched(case)
    ELSE try_matched(table, n, case, Search(table[n].pattern, case))

\* lines 729-743 on the text of a bullet
binary_case_text(table, case) ==
    IF r_redundant_case(case) THEN Step("skip", "none", NoCond, "")
    ELSE try_patterns(table, 1, case)

\* lines 725-743: the body of the loop of parse_binary_docstring
binary_line(line) ==
    IF ~r_case(line).ok THEN Step("warn_line", "none", NoCond, "")
    ELSE binary_case_text(binary_pattern_to_case_factory, r_case(line).groups[1])

\* ------------------------------------------------- docstrings to be parsed
\* A docstring is [special_cases, lines]: whether it holds the header that
\* r_special_cases looks for, and the lines of its bullet block, each a
\* sequence of tokens from the dash to the full stop.

Approx(cs) == <<W("an implementation-dependent approximation to"), Code(cs)>>
Bullet(toks) == <<Dash>> \o toks \o <<Dot>>
IfX(toks) == <<If, x_i, Is>> \o toks \o <<Comma, TheResult, Is>>
Determined == W("determined by the rule already stated above")
SameSign == <<W("the same"), W("mathematical"), W("sign")>>
DiffSigns == <<W("different"), W("mathematical"), W("signs")>>
AFiniteNumber == <<W("a"), W("finite"), W("number")>>

UnaryLines ==
    {Bullet(IfX(<<Code(<<"NaN">>)>>) \o <<Code(<<"NaN">>)>>),
     Bullet(IfX(<<Code(<<"-", "0">>)>>) \o <<Code(<<"+", "0">>)>>),
     Bullet(IfX(<<Code(<<"-", "infinity">>)>>) \o <<Code(<<"+", "infinity">>)>>),
     Bullet(IfX(<<W("less than"), Code(<<"0">>)>>) \o <<Code(<<"NaN">>)>>),
     Bullet(IfX(<<Code(<<"+", "infinity">>)>>)
                \o Approx(<<"+", "π", "/", "2">>)),
     Bullet(<<If, W("two integers are equally close to"), x_i, Comma, TheResult, Is,
              W("the even integer closest to"), x_i>>),
     Bullet(IfX(<<Code(<<"2">>)>>) \o <<Code(<<"NaN">>)>>),
     Bullet(IfX(<<W("already integer-valued")>>) \o <<x_i>>),
     Bullet(<<W("In the remaining cases"), Comma, TheResult, Is, W("computed")>>),
     Bullet(<<W("For other inputs"), TheResult, Is, W("unspecified")>>),
     Bullet(<<TheResult, Is, Determined>>),
     <<W("-"), W("See the note above"), Dot>>}

IfX1(toks) == <<If, x1_i, Is>> \o toks
AndX2(toks) == <<And, x2_i, Is>> \o toks
CommaX1(toks) == <<Comma, x1_i, Is>> \o toks
CommaX2(toks) == <<Comma, x2_i, Is>> \o toks
CommaAndX2(toks) == <<Comma, And, x2_i, Is>> \o toks
ResultIsText(toks) == <<Comma, TheResult, Is>> \o toks
HaveText(signs) == <<If, x1_i, And, x2_i, W("have")>> \o signs
HasSignText(word) == <<Comma, TheResult, W("has a"), W(word), W("mathematical"), W("sign")>>

BinaryLines ==
    {Bullet(IfX1(<<Code(<<"+", "infinity">>)>>) \o AndX2(<<Code(<<"-", "infinity">>)>>)
                \o ResultIsText(<<Code(<<"NaN">>)>>)),
     Bullet(IfX1(<<W("greater than"), Code(<<"0">>)>>) \o CommaX1(AFiniteNumber)
                \o CommaAndX2(<<Code(<<"+", "infinity">>)>>)
                \o ResultIsText(<<Code(<<"+", "0">>)>>)),
     Bullet(IfX1(<<Code(<<"-", "infinity">>)>>)
                \o CommaX2(<<W("greater than"), Code(<<"0">>)>>)
                \o CommaAndX2(<<W("an"), W("odd"), W("integer"), W("value")>>)
                \o ResultIsText(<<Code(<<"-", "infinity">>)>>)),
     Bullet(IfX1(<<W("less than"), Code(<<"0">>)>>) \o CommaX1(AFiniteNumber)
                \o CommaX2(AFiniteNumber)
                \o CommaAndX2(<<W("not"), W("an"), W("integer"), W("value")>>)
                \o ResultIsText(<<Code(<<"NaN">>)>>)),
     Bullet(<<If, Code(<<"abs(x1_i)">>), Is, W("greater than"), Code(<<"1">>)>>
                \o AndX2(<<Code(<<"+", "infinity">>)>>)
                \o ResultIsText(<<Code(<<"+", "infinity">>)>>)),
     Bullet(<<If, W("either"), x1_i, W("or"), x2_i, Is, Code(<<"NaN">>)>>
                \o ResultIsText(<<Code(<<"NaN">>)>>)),
     Bullet(HaveText(SameSign) \o HasSignText("positive")),
     Bullet(HaveText(DiffSigns) \o <<And, W("are both"), W("finite")>>
                \o HasSignText("negative")),
     Bullet(HaveText(DiffSigns) \o HasSignText("negative")
                \o <<Comma, W("unless"), TheResult, Is, Code(<<"NaN">>), Dot, If,
                     TheResult, Is, Code(<<"NaN">>), Comma, W("the \"sign\" of"),
                     Code(<<"NaN">>), Is, W("implementation-defined")>>),
     Bullet(<<If, x2_i, Is, Code(<<"+", "0">>)>> \o ResultIsText(<<Code(<<"1">>)>>)
                \o <<Comma, W("even if"), x1_i, Is, Code(<<"NaN">>)>>),
     Bullet(IfX1(<<W("either"), Code(<<"+", "infinity">>), W("or"),
                   Code(<<"-", "infinity">>)>>)
                \o AndX2(<<W("a"), W("nonzero"), W("finite"), W("number")>>)
                \o ResultIsText(<<W("a signed infinity with the mathematical sign"),
                                  Determined>>)),
     Bullet(IfX1(<<Code(<<"+", "0">>)>>) \o AndX2(<<Code(<<"-", "0">>)>>)
                \o ResultIsText(<<W("a signed zero")>>)),
     Bullet(IfX1(<<Code(<<"2">>)>>) \o AndX2(<<Code(<<"NaN">>)>>)
                \o ResultIsText(<<Code(<<"NaN">>)>>)),
     Bullet(<<W("In the remaining cases"), Comma, TheResult, Is, W("computed")>>),
     Bullet(<<W("For other inputs"), TheResult, Is, W("unspecified")>>),
     Bullet(<<TheResult, Is, Determined>>),
     <<W("-"), W("See the note above"), Dot>>}

\* the most bullet lines a docstring of the model holds
MaxLines == 2

SeqsUpTo(S, n) == UNION {[1..k -> S] : k \in 0..n}

Docstrings(lineset) ==
    {[special_cases |-> h, lines |-> ls] :
        h \in BOOLEAN, ls \in SeqsUpTo(lineset, MaxLines)}

\* a search that takes any run of lines for the block, header or not
r_special_cases_any(doc) == [ok |-> TRUE, groups |-> <<doc.lines>>]

\* r_special_cases.search(docstring), then match.group(1).split("\n")[:-1]:
\* the header followed by at least one bullet line
r_special_cases(doc) ==
    IF doc.special_cases /\ Len(doc.lines) >= 1
    THEN [ok |-> TRUE, groups |-> <<doc.lines>>]
    ELSE NoMatch

\* ------------------------------------------------------------- parse spec
\* parse_unary_docstring / parse_binary_docstring on one docstring.  pc is
\* "start", "loop", "returned" or "raised"; li counts the lines the loop has
\* taken; cases is the list under construction and, once returned, the
\* result; warns lists the warnings emitted; raised is the exception that
\* escaped; last is the outcome of the latest pass of the loop.

NoStep == Step("none", "none", NoCond, "")
NoCall == [fn |-> "none"]

\* broadcast_shapes is not running
NoBroadcast == [pc |-> "idle"]

\* no test is running
RunIdle ==
    /\ test = "none" /\ x1 = << >> /\ x2 = << >> /\ res = << >> /\ idx = 0 /\ ci = 0
    /\ good_example = FALSE /\ outcome = "none" /\ asserted = << >>
    /\ again = FALSE

TestIdle == RunIdle /\ bcast = NoBroadcast

\* no collection is running
DriverIdle ==
    /\ stubs = << >> /\ unary_params = << >> /\ binary_params = << >>
    /\ dwarns = << >> /\ parse_calls = << >> /\ dpc = "idle"

InitParse ==
    /\ parser \in {"unary", "binary"}
    /\ docstring \in Docstrings(IF parser = "unary" THEN UnaryLines ELSE BinaryLines)
    /\ li = 0
    /\ cases = << >>
    /\ warns = << >>
    /\ pc = "start"
    /\ raised = "none"
    /\ last = NoStep
    /\ call = NoCall
    /\ ret = FALSE
    /\ TestIdle
    /\ DriverIdle

\* lines 393-397 / 719-723
Start ==
    /\ pc = "start"
    /\ pc' = IF r_special_cases(docstring).ok THEN "loop" ELSE "returned"
    /\ UNCHANGED <<parser, docstring, li, cases, warns, raised, last, call, ret>>
    /\ UNCHANGED <<testVars, driverVars>>

line_step(k, line) == IF k = "unary" THEN unary_line(line) ELSE binary_line(line)

\* one pass of the for loop of lines 398-415 / 724-743
Loop ==
    /\ pc = "loop"
    /\ li < Len(docstring.lines)
    /\ LET step == line_step(parser, docstring.lines[li + 1])
       IN /\ last' = step
          /\ li' = li + 1
          /\ cases' = IF step.kind = "case" THEN Append(cases, step.case) ELSE cases
          /\ warns' = IF step.kind \in {"warn_line", "warn_value", "warn_case"}
                      THEN Append(warns, step.kind) ELSE warns
          /\ raised' = step.exc
          /\ pc' = IF step.kind = "raise" THEN "raised" ELSE "loop"
    /\ UNCHANGED <<parser, docstring, call, ret>>
    /\ UNCHANGED <<testVars, driverVars>>

\* return cases (line 416 / 744)
Return ==
    /\ pc = "loop"
    /\ li = Len(docstring.lines)
    /\ pc' = "returned"
    /\ UNCHANGED <<parser, docstring, li, cases, warns, raised, last, call, ret>>
    /\ UNCHANGED <<testVars, driverVars>>

NextParse == Start \/ Loop \/ Return

SpecParse == InitParse /\ [][NextParse]_vars

\* ------------------------------------------------------------ array helpers
\* array_helpers.py works on arrays of the library under test: an array is a
\* sequence of floats (of booleans for a mask) and the library's functions
\* act element by element with the semantics of IEEE 754.  Tiny is the
\* smallest positive float, whose reciprocal overflows to infinity.

Max(a, b) == IF a >= b THEN a ELSE b

Tiny == F("sub", 0, 1)
NegTiny == F("sub", 1, 1)

\* 1 / x on floats
reciprocal(x) ==
    CASE x.k = "nan" -> x
      [] x.k = "inf" -> F("fin", x.s, 0)
      [] x.k = "sub" -> F("inf", x.s, 0)
      [] x.k = "fin" /\ x.m = 0 -> F("inf", x.s, 0)
      [] OTHER -> F("fin", x.s, Max(1, 1000000 \div x.m))

\* the functions of the array library
isnan_(x) == [k \in DOMAIN x |-> isnan(x[k])]
equal(x, y) == [k \in DOMAIN x |-> FEq(x[k], y[k])]
not_equal(x, y) == [k \in DOMAIN x |-> ~FEq(x[k], y[k])]
equal_masks(x, y) == [k \in DOMAIN x |-> x[k] = y[k]]
divide_one(x) == [k \in DOMAIN x |-> reciprocal(x[k])]
logical_and(x, y) == [k \in DOMAIN x |-> x[k] /\ y[k]]
logical_or(x, y) == [k \in DOMAIN x |-> x[k] \/ y[k]]
logical_not(x) == [k \in DOMAIN x |-> ~x[k]]
full(x, v) == [k \in DOMAIN x |-> v]

\* array_helpers.py lines 89-105
isnegzero(x) == equal(divide_one(x), full(x, NegInf))
isposzero(x) == equal(divide_one(x), full(x, Inf))

FloatDtypes == {"float32", "float64"}

\* equality of the library and nothing more
exactly_equal_plain(dtype, x, y) == equal(x, y)

\* array_helpers.py lines 107-130
exactly_equal(dtype, x, y) ==
    IF dtype \in FloatDtypes
    THEN logical_and(logical_and(
             logical_or(equal(x, y), logical_and(isnan_(x), isnan_(y))),
             equal_masks(isnegzero(x), isnegzero(y))),
             equal_masks(isposzero(x), isposzero(y)))
    ELSE equal(x, y)

\* array_helpers.py lines 132-148
notequal(dtype, x, y) ==
    IF dtype \in FloatDtypes
    THEN logical_and(logical_not(logical_and(isnan_(x), isnan_(y))), not_equal(x, y))
    ELSE not_equal(x, y)

\* ------------------------------------------------------------------ dtypes
\* A dtype is its name; None is "None".

IntegerDtypes ==
    {"int8", "int16", "int32", "int64", "uint8", "uint16", "uint32", "uint64"}
Dtypes == IntegerDtypes \cup {"bool", "float32", "float64", "None"}

\* array_helpers.py line 301: the list that is searched
is_integer_dtype_list ==
    <<"int8", "int16", "int32", "int16", "uint8", "uint16", "uint32", "uint64">>

\* array_helpers.py lines 298-301
is_integer_dtype(dtype) ==
    IF dtype = "None" THEN FALSE
    ELSE \E k \in 1..Len(is_integer_dtype_list) : is_integer_dtype_list[k] = dtype

\* array_helpers.py lines 311-320, a range [-2^(bits-1), 2^(bits-1) - 1] or
\* [0, 2^bits - 1] written as its signedness and its number of bits
dtype_ranges ==
    [d \in IntegerDtypes |->
        [signed |-> d \in {"int8", "int16", "int32", "int64"},
         bits |-> CASE d \in {"int8", "uint8"} -> 8
                    [] d \in {"int16", "uint16"} -> 16
                    [] d \in {"int32", "uint32"} -> 32
                    [] d \in {"int64", "uint64"} -> 64]]

\* dh.dtype_nbits and dh.dtype_signed
dtype_nbits(dtype) == dtype_ranges[dtype].bits
dtype_signed(dtype) == dtype_ranges[dtype].signed

RECURSIVE Pow2(_)
Pow2(n) == IF n = 0 THEN 1 ELSE 2 * Pow2(n - 1)

\* a & b on two non-negative integers, bit by bit
RECURSIVE BitAnd(_, _)
BitAnd(a, b) ==
    IF a = 0 \/ b = 0 THEN 0
    ELSE (a % 2) * (b % 2) + 2 * BitAnd(a \div 2, b \div 2)

\* x & mask on a Python integer x of any sign, mask being 2^n - 1: the n low
\* bits of the two's complement of x
and_mask(x, mask) == BitAnd(x % (mask + 1), mask)

\* ~x on a Python integer
invert(x) == -x - 1

\* the sign bit left as a value bit
int_to_dtype_unsigned(x, n, signed) == and_mask(x, Pow2(n) - 1)

\* array_helpers.py lines 322-332
int_to_dtype(x, n, signed) ==
    LET mask == Pow2(n) - 1
        x_ == and_mask(x, mask)
        highest_bit == Pow2(n - 1)
    IN IF signed /\ BitAnd(x_, highest_bit) # 0
       THEN -(and_mask(invert(x_), mask) + 1)
       ELSE x_

\* test_operators_and_elementwise_functions.py lines 51-60
mock_int_dtype(n, dtype) ==
    LET nbits == dtype_nbits(dtype)
        mask == Pow2(nbits) - 1
        n_ == and_mask(n, mask)
        highest_bit == Pow2(nbits - 1)
    IN IF dtype_signed(dtype) /\ BitAnd(n_, highest_bit) # 0
       THEN -(and_mask(invert(n_), mask) + 1)
       ELSE n_

\* ---------------------------------------------------------- pure-call spec
\* One call of a primitive at a time: call holds the function and its
\* arguments, ret what the call returned.

PrimVals == {NaN, NegNaN, Inf, NegInf, PosZero, NegZero, One, Fin(-1000),
             Fin(1005), Fin(1010), Fin(1011), Fin(1050), Fin(1100), Fin(1101)}

PrimConds == {make_eq(v) : v \in {NaN, PosZero, NegZero, One, NegInf}}
                 \cup {Cl("gt", PosZero, NoCond, NoCond)}

\* result phrases handed to parse_result
ResultStrs ==
    {<<Code(<<"1">>)>>, <<Code(<<"+", "0">>)>>, <<Code(<<"-", "0">>)>>,
     <<Code(<<"NaN">>)>>, <<Code(<<"2">>)>>,
     Approx(<<"1">>), Approx(<<"+", "0">>), Approx(<<"π">>),
     Approx(<<"-", "π", "/", "2">>), Approx(<<"3", "π", "/", "4">>),
     Approx(<<"+", "infinity">>), Approx(<<"2">>),
     <<W("positive")>>}

\* outputs around the targets of ResultStrs
Near(v) == {Fin(Num(v) + d) : d \in {-101, -100, -50, -11, -10, 0, 5, 10, 11, 100}}
ResultOuts ==
    {NaN, Inf, NegInf, PosZero, NegZero}
        \cup Near(One) \cup Near(PosZero) \cup Near(Pi) \cup Near(Fin(-1571))
        \cup Near(Fin(2357))

ParseIdle ==
    /\ parser = "none" /\ docstring = [special_cases |-> FALSE, lines |-> << >>]
    /\ li = 0 /\ cases = << >> /\ warns = << >> /\ pc = "idle" /\ raised = "none"
    /\ last = NoStep

InitPrim == call = NoCall /\ ret = FALSE /\ ParseIdle /\ TestIdle /\ DriverIdle

CallMakeEq ==
    /\ call = NoCall
    /\ \E v \in PrimVals, i \in PrimVals :
        /\ call' = [fn |-> "make_eq", v |-> v, i |-> i]
        /\ ret' = Apply(make_eq(v), i)
    /\ UNCHANGED <<parseVars, testVars, driverVars>>

CallMakeAnd ==
    /\ call = NoCall
    /\ \E c1 \in PrimConds, c2 \in PrimConds, i \in PrimVals :
        /\ call' = [fn |-> "make_and", c1 |-> c1, c2 |-> c2, i |-> i]
        /\ ret' = Apply(make_and(c1, c2), i)
    /\ UNCHANGED <<parseVars, testVars, driverVars>>

CallMakeOr ==
    /\ call = NoCall
    /\ \E c1 \in PrimConds, c2 \in PrimConds, i \in PrimVals :
        /\ call' = [fn |-> "make_or", c1 |-> c1, c2 |-> c2, i |-> i]
        /\ ret' = Apply(make_or(c1, c2), i)
    /\ UNCHANGED <<parseVars, testVars, driverVars>>

\* parse_result(result_str), then the returned check applied to the output o;
\* ret is the check's verdict, or the exception parse_result raised
CallParseResult ==
    /\ call = NoCall
    /\ \E result_str \in ResultStrs, o \in ResultOuts :
        LET r == parse_result(result_str)
        IN /\ call' = [fn |-> "parse_result", result_str |-> result_str, o |-> o,
                       exc |-> r.exc, check |-> r.val]
           /\ ret' = IF r.exc = "none" THEN Apply(r.val, o) ELSE FALSE
    /\ UNCHANGED <<parseVars, testVars, driverVars>>

\* literal texts handed to parse_value
UnsignedStrs ==
    {<<"0">>, <<"1">>, <<"NaN">>, <<"infinity">>, <<"π">>, <<"3", "π", "/", "4">>,
     <<"π", "/", "2">>, <<"2", "π">>, <<"2">>}
ValueStrs ==
    UnsignedStrs \cup {<<"+">> \o u : u \in UnsignedStrs}
                 \cup {<<"-">> \o u : u \in UnsignedStrs} \cup {<< >>}

\* parse_value(value_str): ret is the value returned or the exception raised
CallParseValue ==
    /\ call = NoCall
    /\ \E value_str \in ValueStrs :
        /\ call' = [fn |-> "parse_value", value_str |-> value_str]
        /\ ret' = parse_value(value_str)
    /\ UNCHANGED <<parseVars, testVars, driverVars>>

\* same_sign(a, b) and diff_sign(a, b)
CallSameSign ==
    /\ call = NoCall
    /\ \E a \in PrimVals, b \in PrimVals :
        /\ call' = [fn |-> "same_sign", a |-> a, b |-> b]
        /\ ret' = [same |-> same_sign(a, b), diff |-> diff_sign(a, b)]
    /\ UNCHANGED <<parseVars, testVars, driverVars>>

\* the values of a pair of elements
PairVals == {NaN, NegNaN, PosZero, NegZero, One, Fin(-1000), Inf, NegInf}

\* the groups that name an array element, with the factory that takes them
ElementConds ==
    {[fac |-> ValueCondFactory("i1", 0, FALSE), group |-> <<Code(sign \o <<"x2_i">>)>>] :
        sign \in {<< >>, <<"+">>, <<"-">>}}
    \cup
    {[fac |-> ValueCondFactory("i2", 0, FALSE), group |-> <<Code(sign \o <<"x1_i">>)>>] :
        sign \in {<< >>, <<"+">>, <<"-">>}}

\* ValueCondFactory(input_, 0)((group,)), then the condition called on (i1, i2);
\* ret is what the condition returned
CallValueCond ==
    /\ call = NoCall
    /\ \E e \in ElementConds, i1 \in PairVals, i2 \in PairVals :
        /\ call' = [fn |-> "value_cond", input_ |-> e.fac.input_, group |-> e.group,
                    i1 |-> i1, i2 |-> i2]
        /\ ret' = ApplyB(value_cond(e.fac, <<e.group>>).val, i1, i2)
    /\ UNCHANGED <<parseVars, testVars, driverVars>>

\* the literals of "greater than" / "less than" phrases
BoundStrs ==
    {<<"0">>, <<"1">>, <<"-", "1">>, <<"+", "infinity">>, <<"-", "infinity">>,
     <<"NaN">>, <<"-", "NaN">>}

\* make_gt(v) / make_lt(v) and parse_cond of the phrase with the literal of v,
\* then the predicate applied to i; ret is what the predicate returned
CallMakeGtLt ==
    /\ call = NoCall
    /\ \E fn \in {"make_gt", "make_lt"}, lit \in BoundStrs, i \in PrimVals :
        LET v == parse_value(lit).val
            made == IF fn = "make_gt" THEN make_gt(v) ELSE make_lt(v)
            parsed_ == parse_cond(<<W(IF fn = "make_gt" THEN "greater than"
                                      ELSE "less than"), Code(lit)>>)
        IN /\ call' = [fn |-> fn, v |-> v, i |-> i, exc |-> made.exc,
                       parse_exc |-> parsed_.exc, parse_val |-> parsed_.val]
           /\ ret' = IF made.exc = "none" THEN Apply(made.val, i) ELSE FALSE
    /\ UNCHANGED <<parseVars, testVars, driverVars>>

GreaterThan(cs) == <<W("greater than"), Code(cs)>>
LessThan(cs) == <<W("less than"), Code(cs)>>

\* condition phrases handed to parse_cond, each also under a "not" prefix
CondPhrases ==
    {<<Code(<<"0">>)>>, <<Code(<<"+", "0">>)>>, <<Code(<<"-", "0">>)>>,
     <<Code(<<"NaN">>)>>, <<Code(<<"1">>)>>, GreaterThan(<<"0">>), LessThan(<<"0">>),
     <<W("finite")>>, <<W("positive")>>, <<W("negative")>>,
     PositiveFinitePhrase, NegativeFinitePhrase,
     <<W("an"), W("integer"), W("value")>>, <<W("prime")>>}
NotPrefixes == {<< >>, <<W("not")>>, <<W("not"), W("equal to")>>}
CondVals == PrimVals \cup {Fin(500), Fin(2000), Fin(-2000)}

\* parsed is parse_cond of the phrase, base parse_cond of the phrase without
\* its prefix; both conditions are called on every scalar i
cond_calls(prefix, phrase, parsed, expr, base, base_expr) ==
    \E i \in CondVals :
        /\ call' = [fn |-> "parse_cond", prefix |-> prefix, phrase |-> phrase, i |-> i,
                    exc |-> parsed.exc, expr |-> expr,
                    base_exc |-> base.exc, base_expr |-> base_expr,
                    base_ret |-> IF base.exc = "none" THEN Apply(base.val, i) ELSE FALSE]
        /\ ret' = IF parsed.exc = "none" THEN Apply(parsed.val, i) ELSE FALSE

\* parse_cond(cond_str), then the returned condition applied to i; ret is
\* what the condition returned
CallParseCond ==
    /\ call = NoCall
    /\ \E prefix \in NotPrefixes, phrase \in CondPhrases :
        cond_calls(prefix, phrase,
                   parse_cond(prefix \o phrase), expr_template(prefix \o phrase),
                   parse_cond(phrase), expr_template(phrase))
    /\ UNCHANGED <<parseVars, testVars, driverVars>>

\* conditions handed to absify_cond
AbsConds ==
    {make_eq(One), make_eq(Inf), make_eq(PosZero), make_eq(NaN),
     Cl("gt", One, NoCond, NoCond), Cl("lt", One, NoCond, NoCond),
     Cl0("copysign_neg"), Cl0("isfinite")}

\* absify_cond(cond), then the returned predicate applied to i
CallAbsify ==
    /\ call = NoCall
    /\ \E c \in AbsConds, i \in PrimVals :
        /\ call' = [fn |-> "absify_cond", c |-> c, i |-> i]
        /\ ret' = Apply(absify_cond(c), i)
    /\ UNCHANGED <<parseVars, testVars, driverVars>>

\* bullets of a binary docstring, [form, p, q, r]: the phrases of the first
\* and second condition (the sign phrase for the sign forms) and of the result
PairBullet(form, p, q, r) == [form |-> form, p |-> p, q |-> q, r |-> r]

PairBullets ==
    {PairBullet("abs", p, q, <<Code(<<"+", "0">>)>>) :
        p \in {GreaterThan(<<"1">>), LessThan(<<"1">>), <<Code(<<"1">>)>>,
               <<Code(<<"+", "infinity">>)>>},
        q \in {<<Code(<<"+", "infinity">>)>>, <<Code(<<"-", "infinity">>)>>,
               LessThan(<<"0">>), <<Code(<<"-", "0">>)>>}}
    \cup
    {PairBullet("either", p, << >>, <<Code(<<"NaN">>)>>) :
        p \in {<<Code(<<"NaN">>)>>, <<Code(<<"+", "0">>)>>, LessThan(<<"0">>),
               <<Code(<<"+", "infinity">>)>>}}
    \cup
    {PairBullet("sign_both", p, q, r) :
        p \in {<<W("finite")>>, GreaterThan(<<"0">>), <<Code(<<"NaN">>)>>},
        q \in {SameSign, DiffSigns},
        r \in {<<W("positive")>>, <<W("negative")>>}}
    \cup
    {PairBullet("sign", << >>, q, r) :
        q \in {SameSign, DiffSigns},
        r \in {<<W("positive")>>, <<W("negative")>>, <<W("nonzero")>>}}

ResultHasText(r) == <<Comma, TheResult, W("has a")>> \o r \o <<W("mathematical"), W("sign")>>

LineOf(b) ==
    CASE b.form = "abs" ->
            Bullet(<<If, Code(<<"abs(x1_i)">>), Is>> \o b.p \o AndX2(b.q)
                       \o ResultIsText(b.r))
      [] b.form = "either" ->
            Bullet(<<If, W("either"), x1_i, W("or"), x2_i, Is>> \o b.p
                       \o ResultIsText(b.r))
      [] b.form = "sign_both" ->
            Bullet(HaveText(b.q) \o <<And, W("are both")>> \o b.p \o ResultHasText(b.r))
      [] b.form = "sign" -> Bullet(HaveText(b.q) \o ResultHasText(b.r))

LineVals == PairVals \cup {Fin(2000), Fin(-2000), Fin(500)}

\* the case of the bullet called on the elements (i1, i2) and the output o
case_verdicts(step, i1, i2, o) ==
    IF step.kind # "case" THEN [cond |-> FALSE, check_result |-> FALSE]
    ELSE [cond |-> ApplyB(step.case.cond, i1, i2),
          check_result |-> ApplyCheckB(step.case.check_result, i1, i2, o)]

\* the case that step holds called on every (i1, i2) and output o
line_calls(b, step) ==
    \E i1 \in LineVals, i2 \in LineVals, o \in PairVals :
        /\ call' = [fn |-> "binary_line", form |-> b.form, p |-> b.p, q |-> b.q,
                    r |-> b.r, i1 |-> i1, i2 |-> i2, o |-> o,
                    kind |-> step.kind, pat |-> step.pat]
        /\ ret' = case_verdicts(step, i1, i2, o)

\* one pass of the loop of parse_binary_docstring on the line of a bullet,
\* then the cond and the check_result of its case called on (i1, i2) and
\* (i1, i2, o); ret holds what the two returned
CallBinaryLine ==
    /\ call = NoCall
    /\ \E b \in PairBullets : line_calls(b, binary_line(LineOf(b)))
    /\ UNCHANGED <<parseVars, testVars, driverVars>>

\* inputs around the halves and the outputs next to them
RoundIns ==
    {NaN, Inf, NegInf, PosZero, NegZero, One, Fin(2000), Fin(-1000), Fin(500),
     Fin(1500), Fin(2500), Fin(-500), Fin(-1500), Fin(-2500), Fin(700), Fin(1200)}
RoundOuts ==
    {NaN, PosZero, NegZero, One, Fin(2000), Fin(3000), Fin(-1000), Fin(-2000),
     Fin(-3000), Fin(1500)}

\* the case that step holds called on every input i and output o
unary_line_calls(line, step) ==
    \E i \in RoundIns, o \in RoundOuts :
        /\ call' = [fn |-> "unary_line", line |-> line, i |-> i, o |-> o,
                    kind |-> step.kind, pat |-> step.pat]
        /\ ret' = IF step.kind # "case" THEN [cond |-> FALSE, check_result |-> FALSE]
                  ELSE [cond |-> Apply(step.case.cond, i),
                        check_result |-> ApplyCheckU(step.case.check_result, i, o)]

\* one pass of the loop of parse_unary_docstring on the line of a bullet, then
\* the cond and the check_result of its case called on i and (i, o)
CallUnaryLine ==
    /\ call = NoCall
    /\ \E line \in UnaryLines : unary_line_calls(line, unary_line(line))
    /\ UNCHANGED <<parseVars, testVars, driverVars>>

\* the elements of the arrays handed to exactly_equal and notequal
HelperFloats == {NaN, PosZero, NegZero, One, Fin(-1000), Inf, NegInf, Tiny}
HelperInts == {PosZero, One, Fin(-1000)}
HelperArrays(dtype) ==
    [1..2 -> IF dtype \in FloatDtypes THEN HelperFloats ELSE HelperInts]

\* exactly_equal(x, y) and notequal(x, y) on two arrays of a shape and dtype
CallExactlyEqual ==
    /\ call = NoCall
    /\ \E dtype \in {"float32", "float64", "int64"} :
        \E x \in HelperArrays(dtype), y \in HelperArrays(dtype) :
            /\ call' = [fn |-> "exactly_equal", dtype |-> dtype, x |-> x, y |-> y]
            /\ ret' = [exactly_equal |-> exactly_equal(dtype, x, y),
                       notequal |-> notequal(dtype, x, y)]
    /\ UNCHANGED <<parseVars, testVars, driverVars>>

\* is_integer_dtype(dtype)
CallIsIntegerDtype ==
    /\ call = NoCall
    /\ \E dtype \in Dtypes :
        /\ call' = [fn |-> "is_integer_dtype", dtype |-> dtype]
        /\ ret' = is_integer_dtype(dtype)
    /\ UNCHANGED <<parseVars, testVars, driverVars>>

\* the most bits of an int_to_dtype call of the model
MaxBits == 5

\* int_to_dtype(x, n, signed) on the integers around the range of n bits
CallIntToDtype ==
    /\ call = NoCall
    /\ \E n \in 1..MaxBits, signed \in BOOLEAN :
        \E x \in (-2 * Pow2(n))..(2 * Pow2(n)) :
            /\ call' = [fn |-> "int_to_dtype", x |-> x, n |-> n, signed |-> signed]
            /\ ret' = int_to_dtype(x, n, signed)
    /\ UNCHANGED <<parseVars, testVars, driverVars>>

\* the integers at the edges of a range of n bits
EdgeInts(n) ==
    {s * (Pow2(n) + d) : s \in {-1, 1}, d \in {-1, 0, 1}}
        \cup {s * (Pow2(n - 1) + d) : s \in {-1, 1}, d \in {-1, 0, 1}}
        \cup {s * (2 * Pow2(n) + d) : s \in {-1, 1}, d \in {-1, 0, 1}}
        \cup {-1, 0, 1, 100, -100}

\* mock_int_dtype(n, dtype) and int_to_dtype with the width and signedness of
\* the dtype; ret holds what the two returned
CallMockIntDtype ==
    /\ call = NoCall
    /\ \E dtype \in {"int8", "uint8", "int16", "uint16"} :
        \E x \in EdgeInts(dtype_nbits(dtype)) :
            /\ call' = [fn |-> "mock_int_dtype", x |-> x, dtype |-> dtype,
                        n |-> dtype_nbits(dtype), signed |-> dtype_signed(dtype)]
            /\ ret' = [mock_int_dtype |-> mock_int_dtype(x, dtype),
                       int_to_dtype |-> int_to_dtype(x, dtype_nbits(dtype),
                                                     dtype_signed(dtype))]
    /\ UNCHANGED <<parseVars, testVars, driverVars>>

CallReturn ==
    /\ call # NoCall
    /\ call' = NoCall
    /\ ret' = FALSE
    /\ UNCHANGED <<parseVars, testVars, driverVars>>

NextPrim ==
    \/ CallMakeEq \/ CallMakeAnd \/ CallMakeOr \/ CallParseResult \/ CallParseValue
    \/ CallSameSign \/ CallValueCond \/ CallMakeGtLt
    \/ CallAbsify \/ CallBinaryLine \/ CallParseCond \/ CallUnaryLine
    \/ CallExactlyEqual \/ CallIsIntegerDtype \/ CallIntToDtype \/ CallMockIntDtype
    \/ CallReturn

SpecPrim == InitPrim /\ [][NextPrim]_vars

\* --------------------------------------------------------- test_unary/binary
\* One example of test_unary or test_binary: cases is the parametrized list,
\* x1 (x of test_unary) and x2 the sampled arrays, res what the function under
\* test returned.  Arrays are one-dimensional, an array of one element
\* broadcasting against a longer one, and res has the broadcast shape.  pc is
\* "given", "call", "for_idx", "for_case", "assume" or "done"; idx and ci are the
\* positions of the two loops; asserted lists the calls of check_result made
\* so far as [idx, ci]; outcome is "running", "passed", "failed" (the
\* assertion raised) or "rejected" (assume(False)).

\* the most elements an array of the model holds
MaxLen == 2

\* the lists of cases the tests are parametrized with, parsed from clauses
UnaryCase(cond_str, result_str) == from_strings(cond_str, result_str).val

UnaryCaseLists ==
    {<<UnaryCase(<<Code(<<"NaN">>)>>, <<Code(<<"NaN">>)>>)>>,
     <<UnaryCase(<<W("less than"), Code(<<"0">>)>>, <<Code(<<"NaN">>)>>),
       UnaryCase(<<Code(<<"-", "infinity">>)>>, <<Code(<<"+", "infinity">>)>>)>>,
     <<UnaryCase(<<Code(<<"-", "infinity">>)>>, <<Code(<<"+", "infinity">>)>>),
       UnaryCase(<<W("less than"), Code(<<"0">>)>>, <<Code(<<"NaN">>)>>)>>,
     <<UnaryCase(<<Code(<<"-", "0">>)>>, <<Code(<<"-", "0">>)>>), even_int_round_case>>}

BinaryCaseOf(entry, groups) == make_case(entry, groups).val

BinaryCaseLists ==
    {<<BinaryCaseOf(TwoClause, <<<<Code(<<"+", "infinity">>)>>,
                                  <<Code(<<"-", "infinity">>)>>, <<Code(<<"NaN">>)>> >>)>>,
     <<BinaryCaseOf(EitherClause, <<<<Code(<<"NaN">>)>>, <<Code(<<"NaN">>)>> >>),
       BinaryCaseOf(EvenIfClause, <<<<Code(<<"1">>)>>, <<Code(<<"1">>)>> >>)>>,
     <<BinaryCaseOf(SignClause, <<SameSign, <<W("positive")>> >>),
       BinaryCaseOf(EitherClause, <<<<Code(<<"NaN">>)>>, <<Code(<<"NaN">>)>> >>)>>}

\* the element values of the sampled arrays and of the returned array
UnaryIns == {NaN, NegInf, Fin(-1000), NegZero, Fin(1500)}
UnaryOuts == {NaN, Inf, NegZero, Fin(2000)}
LeftIns == {NaN, Inf, One}
RightIns == {NaN, NegInf, One}
BinaryOuts == {NaN, One}

Arrays(S) == UNION {[1..n -> S] : n \in 1..MaxLen}

\* mutually broadcastable shapes
Broadcastable(m, n) == m = n \/ m = 1 \/ n = 1
result_shape(m, n) == IF m >= n THEN m ELSE n

\* sh.ndindex(shape): the indices of the shape in order
ndindex(shape) == [k \in 1..shape |-> k]

\* sh.iter_indices(x1.shape, x2.shape, res.shape): for each result index, in
\* order, the indices of the operands that broadcast to it
iter_indices(shape1, shape2, result) ==
    [k \in 1..result |->
        [l_idx |-> IF shape1 = 1 THEN 1 ELSE k,
         r_idx |-> IF shape2 = 1 THEN 1 ELSE k,
         o_idx |-> k]]

\* float(x[idx]) / float(x1[l_idx]) and float(x2[r_idx]) at the k-th position
left_at(k) ==
    IF test = "unary" THEN x1[ndindex(Len(res))[k]]
    ELSE x1[iter_indices(Len(x1), Len(x2), Len(res))[k].l_idx]
right_at(k) ==
    IF test = "unary" THEN PosZero
    ELSE x2[iter_indices(Len(x1), Len(x2), Len(res))[k].r_idx]
\* float(res[idx]) / float(res[o_idx])
out_at(k) ==
    IF test = "unary" THEN res[ndindex(Len(res))[k]]
    ELSE res[iter_indices(Len(x1), Len(x2), Len(res))[k].o_idx]

\* case.cond(in_) / case.cond(l, r)
cond_holds(case, l, r) ==
    IF test = "unary" THEN Apply(case.cond, l) ELSE ApplyB(case.cond, l, r)

\* case.check_result(in_, out) / case.check_result(l, r, o)
check_holds(case, l, r, o) ==
    IF test = "unary" THEN ApplyCheckU(case.check_result, l, o)
    ELSE ApplyCheckB(case.check_result, l, r, o)

InitTest ==
    /\ test \in {"unary", "binary"}
    /\ cases \in (IF test = "unary" THEN UnaryCaseLists ELSE BinaryCaseLists)
    /\ x1 \in Arrays(IF test = "unary" THEN UnaryIns ELSE LeftIns)
    /\ x2 \in (IF test = "unary" THEN {<< >>}
               ELSE {a \in Arrays(RightIns) : Broadcastable(Len(x1), Len(a))})
    /\ res = << >>
    /\ idx = 0 /\ ci = 0
    /\ good_example = FALSE
    /\ outcome = "running"
    /\ asserted = << >>
    /\ again = FALSE
    /\ bcast = NoBroadcast
    /\ pc = "call"
    /\ parser = "none" /\ docstring = [special_cases |-> FALSE, lines |-> << >>]
    /\ li = 0 /\ warns = << >> /\ raised = "none" /\ last = NoStep
    /\ call = NoCall /\ ret = FALSE
    /\ DriverIdle

restVars ==
    <<call, ret, parser, docstring, li, cases, warns, raised, last, test, x1, x2, again,
      bcast>>

\* res = func(x) / res = func(x1, x2), any array of the result shape;
\* good_example = False (lines 799-800, 825-826)
Call ==
    /\ pc = "call"
    /\ res' \in [1..(IF test = "unary" THEN Len(x1) ELSE result_shape(Len(x1), Len(x2)))
                    -> (IF test = "unary" THEN UnaryOuts ELSE BinaryOuts)]
    /\ good_example' = FALSE
    /\ pc' = "for_idx"
    /\ UNCHANGED <<idx, ci, outcome, asserted>>
    /\ UNCHANGED <<restVars, driverVars>>

\* the head of the loop over the indices (lines 801, 827): the next index,
\* or the end of the loop
ForIdx ==
    /\ pc = "for_idx"
    /\ IF idx < Len(res)
       THEN idx' = idx + 1 /\ ci' = 1 /\ pc' = "for_case"
       ELSE pc' = "assume" /\ UNCHANGED <<idx, ci>>
    /\ UNCHANGED <<res, good_example, outcome, asserted>>
    /\ UNCHANGED <<restVars, driverVars>>

\* the assertion raised instead of breaking
case_step_no_assert(hit, ok) ==
    IF ~hit THEN "next_case" ELSE "break"

\* the loop going on to the next case after a passed assertion
case_step_no_break(hit, ok) ==
    IF ~hit THEN "next_case"
    ELSE IF ~ok THEN "raise"
    ELSE "next_case"

\* lines 804-813 / 830-839: what the body of the loop over the cases does,
\* hit being case.cond(...) and ok case.check_result(...)
case_step(hit, ok) ==
    IF ~hit THEN "next_case"
    ELSE IF ~ok THEN "raise"
    ELSE "break"

\* one pass of the loop over the cases (lines 803-813, 829-839), or its end
ForCase ==
    /\ pc = "for_case"
    /\ IF ci > Len(cases)
       THEN pc' = "for_idx" /\ UNCHANGED <<ci, good_example, outcome, asserted>>
       ELSE LET hit == cond_holds(cases[ci], left_at(idx), right_at(idx))
                ok == check_holds(cases[ci], left_at(idx), right_at(idx), out_at(idx))
                step == case_step(hit, hit /\ ok)
            IN /\ good_example' = (good_example \/ hit)
               /\ asserted' = IF hit THEN Append(asserted, [idx |-> idx, ci |-> ci])
                              ELSE asserted
               /\ ci' = IF step = "next_case" THEN ci + 1 ELSE ci
               /\ outcome' = IF step = "raise" THEN "failed" ELSE outcome
               /\ pc' = CASE step = "next_case" -> "for_case"
                          [] step = "raise" -> "done"
                          [] step = "break" -> "for_idx"
    /\ UNCHANGED <<res, idx>>
    /\ UNCHANGED <<restVars, driverVars>>

\* the example always counted as passed
assume_passes(condition) == "passed"

\* hypothesis.assume(condition): the example is rejected unless the condition holds
assume(condition) == IF condition THEN "passed" ELSE "rejected"

\* assume(good_example) (lines 813, 840), after which the test returns
Assume ==
    /\ pc = "assume"
    /\ outcome' = assume(good_example)
    /\ pc' = "done"
    /\ UNCHANGED <<res, idx, ci, good_example, asserted>>
    /\ UNCHANGED <<restVars, driverVars>>

\* a parameter that the run before has used up
parametrize_exhausted(list) == << >>

\* @pytest.mark.parametrize("func_name, func, cases", ...): every run of the
\* test is handed the list held by the parameter
parametrize(list) == list

\* @given: after an example has passed, failed or been rejected, the test
\* is run again with the same parameters
Rerun ==
    /\ pc = "done"
    /\ cases' = parametrize(cases)
    /\ x1' = << >> /\ x2' = << >> /\ res' = << >>
    /\ idx' = 0 /\ ci' = 0
    /\ good_example' = FALSE
    /\ outcome' = "running"
    /\ asserted' = << >>
    /\ again' = TRUE
    /\ pc' = "given"
    /\ UNCHANGED <<call, ret, parser, docstring, li, warns, raised, last, test, bcast>>
    /\ UNCHANGED driverVars

\* the strategies of @given (lines 794, 817-823) sample the arrays of the run
Given ==
    /\ pc = "given"
    /\ x1' \in Arrays(IF test = "unary" THEN UnaryIns ELSE LeftIns)
    /\ x2' \in (IF test = "unary" THEN {<< >>}
                ELSE {a \in Arrays(RightIns) : Broadcastable(Len(x1'), Len(a))})
    /\ pc' = "call"
    /\ UNCHANGED <<res, idx, ci, good_example, outcome, asserted, again>>
    /\ UNCHANGED <<call, ret, parser, docstring, li, cases, warns, raised, last, test,
                   bcast>>
    /\ UNCHANGED driverVars

Next == Call \/ ForIdx \/ ForCase \/ Assume \/ Rerun \/ Given

Spec == InitTest /\ [][Next]_vars

\* ------------------------------------------------------ an abs-like function
\* test_unary on the three special cases of an abs-like function and the
\* array [NaN, -0.0, -inf, 2.0, -3.0]; the function under test returns the
\* array of the absolute values, or an array that differs from it in one
\* element.

AbsCases ==
    <<UnaryCase(<<Code(<<"NaN">>)>>, <<Code(<<"NaN">>)>>),
      UnaryCase(<<Code(<<"-", "0">>)>>, <<Code(<<"+", "0">>)>>),
      UnaryCase(<<Code(<<"-", "infinity">>)>>, <<Code(<<"+", "infinity">>)>>)>>

AbsInput == <<NaN, NegZero, NegInf, Fin(2000), Fin(-3000)>>

\* the absolute value of a float: NaN for NaN, the sign bit cleared otherwise
fabs(x) == IF isnan(x) THEN NaN ELSE F(x.k, 0, x.m)

AbsReference == [k \in 1..Len(AbsInput) |-> fabs(AbsInput[k])]
AbsBroken == [AbsReference EXCEPT ![2] = NegZero]

AbsOuts ==
    {AbsReference} \cup
    {[AbsReference EXCEPT ![p] = v] :
        p \in 1..Len(AbsInput),
        v \in {NaN, PosZero, NegZero, Inf, NegInf, Fin(2000), Fin(3000)}}

InitAbs ==
    /\ test = "unary"
    /\ cases = AbsCases
    /\ x1 = AbsInput
    /\ x2 = << >>
    /\ res = << >>
    /\ idx = 0 /\ ci = 0
    /\ good_example = FALSE
    /\ outcome = "running"
    /\ asserted = << >>
    /\ again = FALSE
    /\ bcast = NoBroadcast
    /\ pc = "call"
    /\ parser = "none" /\ docstring = [special_cases |-> FALSE, lines |-> << >>]
    /\ li = 0 /\ warns = << >> /\ raised = "none" /\ last = NoStep
    /\ call = NoCall /\ ret = FALSE
    /\ DriverIdle

\* res = func(x), func one of the abs-like functions; good_example = False
\* (lines 799-800)
CallAbs ==
    /\ pc = "call"
    /\ res' \in AbsOuts
    /\ good_example' = FALSE
    /\ pc' = "for_idx"
    /\ UNCHANGED <<idx, ci, outcome, asserted>>
    /\ UNCHANGED <<restVars, driverVars>>

NextAbs == CallAbs \/ ForIdx \/ ForCase \/ Assume

SpecAbs == InitAbs /\ [][NextAbs]_vars

\* --------------------------------------------------------- broadcast_shapes
\* One call of broadcast_shapes(shape1, shape2).  bcast holds the arguments,
\* the locals N1, N2, N, shape and i, and pc: "start", "while", "returned" or
\* "raised".  None is written as -1; shape[i] of the code is shape[i + 1].

\* the most dimensions a shape of the model has
MaxRank == 3
Dims == {1, 2, 3}
Shapes == UNION {[1..n -> Dims] : n \in 0..MaxRank}
None == -1

InitBroadcast ==
    /\ bcast \in {[pc |-> "start", shape1 |-> s1, shape2 |-> s2, N1 |-> 0, N2 |-> 0,
                   N |-> 0, shape |-> << >>, i |-> 0] : s1 \in Shapes, s2 \in Shapes}
    /\ call = NoCall /\ ret = FALSE
    /\ ParseIdle /\ RunIdle /\ DriverIdle

\* lines 29-33
Enter ==
    /\ bcast.pc = "start"
    /\ bcast' = [bcast EXCEPT
                    !.N1 = Len(bcast.shape1),
                    !.N2 = Len(bcast.shape2),
                    !.N = Max(Len(bcast.shape1), Len(bcast.shape2)),
                    !.shape = [k \in 1..Max(Len(bcast.shape1), Len(bcast.shape2)) |-> None],
                    !.i = Max(Len(bcast.shape1), Len(bcast.shape2)) - 1,
                    !.pc = "while"]
    /\ UNCHANGED <<primVars, parseVars, driverVars>>
    /\ UNCHANGED <<test, x1, x2, res, idx, ci, good_example, outcome, asserted, again>>

\* lines 35-44: the dimension of a shape at index n, 1 when n is before its start
dim_at(shape_, n) == IF n >= 0 THEN shape_[n + 1] ELSE 1

\* the dimension of the first shape taken whatever the second
broadcast_dim_first(d1, d2) == d1

\* lines 46-53: the dimension of the result, None when the code raises
broadcast_dim(d1, d2) ==
    IF d1 = 1 THEN d2
    ELSE IF d2 = 1 THEN d1
    ELSE IF d1 = d2 THEN d1
    ELSE None

\* the body of the while loop with the dimension d computed (lines 46-55)
while_body(d) ==
    IF d = None THEN bcast' = [bcast EXCEPT !.pc = "raised"]
    ELSE bcast' = [bcast EXCEPT !.shape[bcast.i + 1] = d, !.i = bcast.i - 1]

\* one pass of the while loop (lines 34-55)
While ==
    /\ bcast.pc = "while"
    /\ bcast.i >= 0
    /\ while_body(broadcast_dim(dim_at(bcast.shape1, bcast.N1 - bcast.N + bcast.i),
                                dim_at(bcast.shape2, bcast.N2 - bcast.N + bcast.i)))
    /\ UNCHANGED <<primVars, parseVars, driverVars>>
    /\ UNCHANGED <<test, x1, x2, res, idx, ci, good_example, outcome, asserted, again>>

\* the loop left and tuple(shape) returned (lines 34, 57)
ReturnShape ==
    /\ bcast.pc = "while"
    /\ bcast.i < 0
    /\ bcast' = [bcast EXCEPT !.pc = "returned"]
    /\ UNCHANGED <<primVars, parseVars, driverVars>>
    /\ UNCHANGED <<test, x1, x2, res, idx, ci, good_example, outcome, asserted, again>>

NextBroadcast == Enter \/ While \/ ReturnShape

\* the function runs on until it returns or raises
SpecBroadcast == InitBroadcast /\ [][NextBroadcast]_vars /\ WF_vars(NextBroadcast)

\* ------------------------------------------------- collection of the tests
\* The loop of lines 750-787 over the stubs of the elementwise category.
\* stubs lists the stubs taken so far, each [has_doc, doc, implemented,
\* param_names]; unary_params and binary_params are the lists under
\* construction, each item [name, func, cases, marks] with name the position of
\* the stub; dwarns lists the warnings of the loop as the position of the
\* stub; parse_calls tells for each stub which parser was called ("none",
\* "unary" or "binary"); dpc is "loop", "done" or "raised".

\* the most stubs the category holds
MaxStubs == 2

RECURSIVE parse_lines(_, _, _, _)

\* one pass of the loop of a parser, step being what the loop body does with
\* the n-th line: the exception escapes, or the loop goes on
parse_lines_step(k, lines, n, acc, step) ==
    IF step.kind = "raise" THEN Raise(step.exc)
    ELSE parse_lines(k, lines, n + 1,
                     IF step.kind = "case" THEN Append(acc, step.case) ELSE acc)

\* lines 398-416 / 724-744: the loop from the n-th line on, then return cases
parse_lines(k, lines, n, acc) ==
    IF n > Len(lines) THEN Ok(acc)
    ELSE parse_lines_step(k, lines, n, acc, line_step(k, lines[n]))

\* parse_unary_docstring(docstring) / parse_binary_docstring(docstring) as calls
parse_docstring(k, doc) ==
    IF ~r_special_cases(doc).ok THEN Ok(<< >>)
    ELSE parse_lines(k, doc.lines, 1, << >>)

Stub(has_doc, doc, implemented, param_names) ==
    [has_doc |-> has_doc, doc |-> doc, implemented |-> implemented,
     param_names |-> param_names]

NoBlockDoc == [special_cases |-> FALSE, lines |-> << >>]
StubDocs ==
    {NoBlockDoc,
     [special_cases |-> TRUE,
      lines |-> <<Bullet(IfX(<<Code(<<"NaN">>)>>) \o <<Code(<<"NaN">>)>>)>>],
     [special_cases |-> TRUE,
      lines |-> <<Bullet(IfX(<<W("already integer-valued")>>) \o <<x_i>>)>>],
     [special_cases |-> TRUE,
      lines |-> <<Bullet(IfX(<<Code(<<"2">>)>>) \o <<Code(<<"NaN">>)>>)>>],
     [special_cases |-> TRUE,
      lines |-> <<Bullet(IfX1(<<Code(<<"+", "infinity">>)>>)
                            \o AndX2(<<Code(<<"-", "infinity">>)>>)
                            \o ResultIsText(<<Code(<<"NaN">>)>>))>>]}
StubParams == {<< >>, <<"x">>, <<"a">>, <<"x1", "x2">>, <<"x1", "y">>}
Stubs ==
    {Stub(TRUE, d, i, p) : d \in StubDocs, i \in BOOLEAN, p \in StubParams}
        \cup {Stub(FALSE, NoBlockDoc, i, p) : i \in BOOLEAN, p \in StubParams}

\* what one pass of the loop does: warn tells whether it warned, list the
\* list it appended to, parse the parser it called, exc the exception that
\* escaped, marks the local list of marks, cases the parsed cases
Pass(warn, list, parse, exc, marks, case_list) ==
    [warn |-> warn, list |-> list, parse |-> parse, exc |-> exc, marks |-> marks,
     cases |-> case_list]

\* lines 756-763: marks of a stub
stub_marks(stub) == IF stub.implemented THEN << >> ELSE <<"skip">>

\* the parameter appended whatever the list of cases
collect_empty(k, stub, r) ==
    IF r.exc # "none" THEN Pass(FALSE, "none", k, r.exc, stub_marks(stub), << >>)
    ELSE Pass(FALSE, k, k, "none", stub_marks(stub), r.val)

\* lines 769-773, 777-781: `if cases := parse_..._docstring(...)`, r being
\* what the call gave
collect(k, stub, r) ==
    IF r.exc # "none" THEN Pass(FALSE, "none", k, r.exc, stub_marks(stub), << >>)
    ELSE IF r.val # << >> THEN Pass(FALSE, k, k, "none", stub_marks(stub), r.val)
    ELSE Pass(FALSE, "none", k, "none", stub_marks(stub), << >>)

\* lines 766-787: the stub has parameters
by_params(stub) ==
    IF stub.param_names[1] = "x"
    THEN collect("unary", stub, parse_docstring("unary", stub.doc))
    ELSE IF Len(stub.param_names) = 1
         THEN Pass(TRUE, "none", "none", "none", stub_marks(stub), << >>)
    ELSE IF stub.param_names[1] = "x1" /\ stub.param_names[2] = "x2"
         THEN collect("binary", stub, parse_docstring("binary", stub.doc))
    ELSE Pass(TRUE, "none", "none", "none", stub_marks(stub), << >>)

\* lines 752-787: the body of the loop
driver_body(stub) ==
    IF ~stub.has_doc THEN Pass(TRUE, "none", "none", "none", << >>, << >>)
    ELSE IF Len(stub.param_names) = 0
         THEN Pass(TRUE, "none", "none", "none", stub_marks(stub), << >>)
    ELSE by_params(stub)

\* pytest.param(stub.__name__, func, cases, id=stub.__name__) (lines 770, 778):
\* the marks collected in the loop are not handed over
pytest_param(name, stub, pass) ==
    [name |-> name, func |-> IF stub.implemented THEN "func" ELSE "None",
     cases |-> pass.cases, marks |-> << >>]

InitDriver ==
    /\ stubs = << >> /\ unary_params = << >> /\ binary_params = << >>
    /\ dwarns = << >> /\ parse_calls = << >> /\ dpc = "loop"
    /\ call = NoCall /\ ret = FALSE /\ ParseIdle /\ TestIdle

\* one pass of the loop over the stubs (lines 752-787)
ForStub ==
    /\ dpc = "loop"
    /\ Len(stubs) < MaxStubs
    /\ \E stub \in Stubs :
        LET pass == driver_body(stub)
            name == Len(stubs) + 1
        IN /\ stubs' = Append(stubs, stub)
           /\ unary_params' = IF pass.list = "unary"
                              THEN Append(unary_params, pytest_param(name, stub, pass))
                              ELSE unary_params
           /\ binary_params' = IF pass.list = "binary"
                               THEN Append(binary_params, pytest_param(name, stub, pass))
                               ELSE binary_params
           /\ dwarns' = IF pass.warn THEN Append(dwarns, name) ELSE dwarns
           /\ parse_calls' = Append(parse_calls, pass.parse)
           /\ dpc' = IF pass.exc # "none" THEN "raised" ELSE "loop"
    /\ UNCHANGED <<primVars, parseVars, testVars>>

\* the loop has taken the last stub
EndStubs ==
    /\ dpc = "loop"
    /\ dpc' = "done"
    /\ UNCHANGED <<stubs, unary_params, binary_params, dwarns, parse_calls>>
    /\ UNCHANGED <<primVars, parseVars, testVars>>

NextDriver == ForStub \/ EndStubs

SpecDriver == InitDriver /\ [][NextDriver]_vars

\* ------------------------------------------------------------------ claims

\* -- test_unary / test_binary (Spec)

CondAt(j, k) == cond_holds(cases[j], left_at(k), right_at(k))
CheckAt(j, k) == check_holds(cases[j], left_at(k), right_at(k), out_at(k))
Matches(k) == {j \in 1..Len(cases) : CondAt(j, k)}
FirstMatch(k) == CHOOSE j \in Matches(k) : \A j2 \in Matches(k) : j <= j2
Offending(k) == Matches(k) # {} /\ ~CheckAt(FirstMatch(k), k)
\* the loop over the cases is over for the k-th element
ElementDone(k) == k < idx \/ (k = idx /\ pc \in {"for_idx", "assume", "done"})

\* C1: for every element the cases are scanned in list order and check_result
\* is called for the first case whose condition holds and for no other case:
\* every call made is for the first matching case of its element, no element
\* has two calls, the calls follow the index order, and every element whose
\* scan is over and that matches a case has its call.
C1_FirstMatchOnly ==
    pc \in {"for_idx", "for_case", "assume", "done"} =>
        /\ \A n \in 1..Len(asserted) :
              /\ Matches(asserted[n].idx) # {}
              /\ asserted[n].ci = FirstMatch(asserted[n].idx)
        /\ \A m, n \in 1..Len(asserted) : m < n => asserted[m].idx < asserted[n].idx
        /\ \A k \in 1..idx :
              (ElementDone(k) /\ Matches(k) # {}) =>
                  \E n \in 1..Len(asserted) : asserted[n].idx = k

\* a passed test in which a later case also held for the element of a call,
\* and its result check would have rejected the output
C1_Witness ==
    /\ pc = "done" /\ outcome = "passed"
    /\ \E n \in 1..Len(asserted) :
          \E j \in (asserted[n].ci + 1)..Len(cases) :
              CondAt(j, asserted[n].idx) /\ ~CheckAt(j, asserted[n].idx)

\* C2: a test whose arrays hold no element satisfying any case's condition
\* ends rejected, and a test with an element satisfying some case's condition
\* does not end rejected.
C2_RejectIffNoMatch ==
    pc = "done" =>
        /\ (\A k \in 1..Len(res) : Matches(k) = {}) => outcome = "rejected"
        /\ (\E k \in 1..Len(res) : Matches(k) # {}) => outcome # "rejected"

C2_Witness ==
    /\ pc = "done" /\ outcome = "rejected"
    /\ Len(res) = MaxLen
    /\ \A k \in 1..Len(res) : Matches(k) = {}

\* C3: a test ends failed iff the result check of the first matching case of
\* some element rejects the output, rejected iff no element matches a case,
\* and passed otherwise; until it ends it has no outcome; a failure is raised
\* at the first offending element, after the call of that element's check.
C3_Outcome ==
    /\ pc # "done" => outcome = "running"
    /\ pc = "done" =>
          /\ outcome = (IF \E k \in 1..Len(res) : Offending(k) THEN "failed"
                        ELSE IF \A k \in 1..Len(res) : Matches(k) = {} THEN "rejected"
                        ELSE "passed")
          /\ outcome = "failed" =>
                /\ Offending(idx)
                /\ \A k \in 1..(idx - 1) : ~Offending(k)
                /\ asserted[Len(asserted)] = [idx |-> idx, ci |-> FirstMatch(idx)]

\* a failure at an element followed by an element that matches and conforms
C3_Witness ==
    /\ pc = "done" /\ outcome = "failed"
    /\ idx < Len(res)
    /\ \E k \in (idx + 1)..Len(res) : Matches(k) # {} /\ ~Offending(k)

\* -- the primitives (SpecPrim)

IsPosZeroRec(x) == x.k = "fin" /\ x.m = 0 /\ x.s = 0
IsNegZeroRec(x) == x.k = "fin" /\ x.m = 0 /\ x.s = 1

\* C4: make_eq(v)(i) holds iff i is NaN when v is NaN, iff i is +0.0 when v is
\* +0.0, iff i is -0.0 when v is -0.0, and iff i == v numerically otherwise.
C4_MakeEq ==
    call.fn = "make_eq" =>
        ret = (IF call.v.k = "nan" THEN call.i.k = "nan"
               ELSE IF IsPosZeroRec(call.v) THEN IsPosZeroRec(call.i)
               ELSE IF IsNegZeroRec(call.v) THEN IsNegZeroRec(call.i)
               ELSE FEq(call.i, call.v))

C4_Witness ==
    /\ call.fn = "make_eq"
    /\ call.v = PosZero /\ call.i = NegZero
    /\ ret = FALSE

ApproxTarget == parse_value(call.result_str[2].c)
IsApproxCall == call.fn = "parse_result" /\ r_approx_value(call.result_str)
OutDiff == AbsInt(Num(call.o) - Num(ApproxTarget.val))
MaxInt(a, b) == IF a > b THEN a ELSE b

\* C5 as stated: the check parsed from "an implementation-dependent
\* approximation to X" accepts an output o iff |o - X| <= 0.1.
C5_ToleranceTenth ==
    (IsApproxCall /\ call.exc = "none") =>
        ret = (isfinite(call.o) /\ OutDiff <= 100)

\* C5 amended: for a finite target X the check is make_rough_eq(X), which
\* accepts o iff math.isclose(o, X, abs_tol=0.01), that is iff o is finite and
\* |o - X| <= max(0.01, 1e-9 * max(|o|, |X|)); for a non-finite X parse_result
\* raises AssertionError.
C5_RoughEq ==
    (IsApproxCall /\ ApproxTarget.exc = "none") =>
        IF isfinite(ApproxTarget.val)
        THEN /\ call.exc = "none"
             /\ call.check.op = "rough_eq"
             /\ ret = (/\ isfinite(call.o)
                       /\ \/ OutDiff <= 10
                          \/ OutDiff <= MaxInt(call.o.m, ApproxTarget.val.m)
                                         \div 1000000000)
        ELSE call.exc = "AssertionError"

C5_Witness ==
    /\ call.fn = "parse_result"
    /\ call.result_str = Approx(<<"1">>)
    /\ call.o = Fin(950)
    /\ call.exc = "none"
    /\ ret = FALSE

\* C6: make_and(c1, c2)(i) holds iff c1(i) and c2(i) both hold, and
\* make_or(c1, c2)(i) holds iff c1(i) or c2(i) holds.
C6_AndOr ==
    /\ call.fn = "make_and" =>
           ret = (Apply(call.c1, call.i) /\ Apply(call.c2, call.i))
    /\ call.fn = "make_or" =>
           ret = (Apply(call.c1, call.i) \/ Apply(call.c2, call.i))

\* the value the claim gives for an unsigned literal
LiteralValue(u) ==
    CASE u = <<"0">> -> PosZero
      [] u = <<"1">> -> One
      [] u = <<"NaN">> -> NaN
      [] u = <<"infinity">> -> Inf
      [] u = <<"π">> -> Pi
      [] u = <<"3", "π", "/", "4">> -> FDiv(FMul(Pi, 3), 4)
      [] u = <<"π", "/", "2">> -> FDiv(Pi, 2)
      [] u = <<"2", "π">> -> FMul(Pi, 2)
KnownLiteral(u) == u \in UnsignedStrs \ {<<"2">>}

\* C12: parse_value decodes "0", "1", "NaN", "infinity", "π", "3π/4" to 0.0,
\* 1.0, NaN, +inf, pi, 3*pi/4; a leading "-" gives the negation of the value
\* of the unsigned literal ("-π/2" is -(pi/2), "-0" is negative zero) and a
\* leading "+" leaves it unchanged ("+0" is positive zero).
C12_ParseValue ==
    (call.fn = "parse_value" /\ Len(call.value_str) >= 1) =>
        LET sign == IF call.value_str[1] \in {"+", "-"} THEN call.value_str[1] ELSE ""
            u == IF sign = "" THEN call.value_str ELSE Tail(call.value_str)
        IN KnownLiteral(u) =>
              /\ ret.exc = "none"
              /\ ret.val = (IF sign = "-" THEN FNeg(LiteralValue(u)) ELSE LiteralValue(u))
              /\ (sign = "-" /\ u = <<"0">>) => ret.val = NegZero
              /\ (sign = "+" /\ u = <<"0">>) => ret.val = PosZero
              /\ (sign = "-" /\ u = <<"π", "/", "2">>) => ret.val = Fin(-1571)

C12_Witness ==
    /\ call.fn = "parse_value"
    /\ call.value_str = <<"-", "0">>
    /\ ret = Ok(NegZero)

\* C13: same_sign(a, b) holds iff a and b have the same sign bit, and
\* diff_sign(a, b) iff they do not: same_sign(-0.0, -1.0) holds and
\* same_sign(0.0, -0.0) does not.
C13_SameSign ==
    call.fn = "same_sign" =>
        /\ ret.same = (call.a.s = call.b.s)
        /\ ret.diff = ~ret.same
        /\ (call.a = NegZero /\ call.b = Fin(-1000)) => ret.same
        /\ (call.a = PosZero /\ call.b = NegZero) => ~ret.same

C13_Witness ==
    /\ call.fn = "same_sign"
    /\ call.a = PosZero /\ call.b = NegZero
    /\ ret = [same |-> FALSE, diff |-> TRUE]

\* exact equality of a with v: NaN equal to NaN, zeros equal under the same sign
ExactEq(a, v) ==
    IF v.k = "nan" THEN a.k = "nan"
    ELSE IF v.k = "fin" /\ v.m = 0 THEN a.k = "fin" /\ a.m = 0 /\ a.s = v.s
    ELSE a.k = v.k /\ a.s = v.s /\ a.m = v.m
Flip(v) == [v EXCEPT !.s = 1 - v.s]

\* C14: the condition of a clause that names the other operand holds for a
\* pair iff the current operand exactly equals the other operand of that
\* pair, negated under a "-" sign.
C14_OtherOperand ==
    call.fn = "value_cond" =>
        LET cur == IF call.input_ = "i1" THEN call.i1 ELSE call.i2
            other == IF call.input_ = "i1" THEN call.i2 ELSE call.i1
            neg == call.group[1].c[1] = "-"
        IN ret = ExactEq(cur, IF neg THEN Flip(other) ELSE other)

\* "x1_i is -x2_i" holds for the pair (-0.0, +0.0)
C14_Witness ==
    /\ call.fn = "value_cond"
    /\ call.input_ = "i1" /\ call.group = <<Code(<<"-", "x2_i">>)>>
    /\ call.i1 = NegZero /\ call.i2 = PosZero
    /\ ret = TRUE

\* the place of a value that is not NaN on the extended real line
Place(x) == IF x.k = "inf" THEN (IF x.s = 1 THEN -1000000 ELSE 1000000)
            ELSE IF x.s = 1 THEN -x.m ELSE x.m

\* C15: make_gt(v) / make_lt(v) with a NaN v raise when the predicate is
\* constructed, also inside parse_cond; with any other v they return a
\* predicate that, applied to any scalar, returns whether i > v / i < v
\* strictly, False for a NaN i, and never raises.
C15_StrictBounds ==
    call.fn \in {"make_gt", "make_lt"} =>
        IF call.v.k = "nan"
        THEN call.exc = "AssertionError" /\ call.parse_exc = "AssertionError"
        ELSE /\ call.exc = "none" /\ call.parse_exc = "none"
             /\ call.parse_val.op = (IF call.fn = "make_gt" THEN "gt" ELSE "lt")
             /\ call.parse_val.v = call.v
             /\ ret \in BOOLEAN
             /\ ret = (/\ call.i.k # "nan"
                       /\ IF call.fn = "make_gt" THEN Place(call.i) > Place(call.v)
                          ELSE Place(call.i) < Place(call.v))

\* a bound of 0.0 applied to NaN and to -0.0 gives False
C15_Witness ==
    /\ call.fn = "make_gt" /\ call.v = PosZero /\ call.exc = "none"
    /\ call.i \in {NaN, NegZero}
    /\ ret = FALSE

\* C16 as stated: parse_result gives the approximate check to a result
\* phrased as an approximation to a quoted value, the exact check (NaN equal
\* to NaN, zeros equal under the same sign) to every other quoted value, and
\* raises ValueParseError for a phrase of neither form.
C16_ResultChecks ==
    call.fn = "parse_result" =>
        IF r_approx_value(call.result_str)
        THEN call.exc = "none" /\ call.check.op = "rough_eq"
        ELSE IF r_code(call.result_str)
        THEN /\ call.exc = "none"
             /\ call.check.op \in {"isnan", "is_pos_zero", "is_neg_zero", "eq"}
        ELSE call.exc = "ValueParseError"

\* what the claims give for a condition phrase p on the scalar x
Holds(p, x) ==
    CASE p = GreaterThan(<<"1">>) -> x.k # "nan" /\ Place(x) > 1000
      [] p = LessThan(<<"1">>) -> x.k # "nan" /\ Place(x) < 1000
      [] p = GreaterThan(<<"0">>) -> x.k # "nan" /\ Place(x) > 0
      [] p = LessThan(<<"0">>) -> x.k # "nan" /\ Place(x) < 0
      [] p = <<Code(<<"1">>)>> -> ExactEq(x, One)
      [] p = <<Code(<<"+", "infinity">>)>> -> ExactEq(x, Inf)
      [] p = <<Code(<<"-", "infinity">>)>> -> ExactEq(x, NegInf)
      [] p = <<Code(<<"+", "0">>)>> -> ExactEq(x, PosZero)
      [] p = <<Code(<<"-", "0">>)>> -> ExactEq(x, NegZero)
      [] p = <<Code(<<"0">>)>> -> ExactEq(x, PosZero)
      [] p = <<Code(<<"NaN">>)>> -> x.k = "nan"
      [] p = <<W("finite")>> -> x.k = "fin"

\* abs(x): the sign bit cleared
Magnitude(x) == F(x.k, 0, x.m)

\* C21: the condition of a bullet "If abs(x1_i) is P and x2_i is Q, the
\* result is R" holds for (i1, i2) iff P holds of abs(i1) and Q holds of i2
\* itself; absify_cond(c)(i) is c(abs(i)) for every scalar i.
C21_AbsFirstOperand ==
    /\ call.fn = "absify_cond" => ret = Apply(call.c, Magnitude(call.i))
    /\ (call.fn = "binary_line" /\ call.form = "abs") =>
          /\ call.kind = "case" /\ call.pat = "AbsClause"
          /\ ret.cond = (Holds(call.p, Magnitude(call.i1)) /\ Holds(call.q, call.i2))

\* "abs(x1_i) is greater than 1 and x2_i is -infinity" holds for (-2.0, -inf)
C21_Witness ==
    /\ call.fn = "binary_line" /\ call.form = "abs"
    /\ call.p = GreaterThan(<<"1">>) /\ call.q = <<Code(<<"-", "infinity">>)>>
    /\ call.i1 = Fin(-2000) /\ call.i2 = NegInf
    /\ ret.cond = TRUE

\* C22: a phrase prefixed with "not" or "not equal to" parses to a condition
\* that holds for a scalar iff the condition of the remaining phrase does
\* not, and to the remaining phrase's expression wrapped as "not (...)":
\* "not equal to 0" rejects only +0.0 and "not NaN" holds iff the scalar is
\* not NaN; a remaining phrase that is not decoded fails as it does alone.
C22_Negation ==
    (call.fn = "parse_cond" /\ call.prefix # << >>) =>
        /\ call.exc = call.base_exc
        /\ call.exc = "none" =>
              /\ ret = ~call.base_ret
              /\ call.expr = <<"not (">> \o call.base_expr \o <<")">>
              /\ call.base_expr # << >>
        /\ call.phrase = <<Code(<<"0">>)>> => ret = (call.i # PosZero)
        /\ call.phrase = <<Code(<<"NaN">>)>> => ret = (call.i.k # "nan")

\* "not equal to 0" holds for -0.0
C22_Witness ==
    /\ call.fn = "parse_cond"
    /\ call.prefix = <<W("not"), W("equal to")>> /\ call.phrase = <<Code(<<"0">>)>>
    /\ call.i = NegZero
    /\ ret = TRUE
    /\ call.expr = <<"not (", "{} == ", PosZero, ")">>

\* C25 as stated: "positive" parses to the condition that holds iff the sign
\* bit of the scalar is clear (so for +0.0 and +infinity), "negative" to the
\* one that holds iff it is set; neither is decoded as the condition of a
\* positive / negative finite number.
C25_SignPhrases ==
    (call.fn = "parse_cond" /\ call.prefix = << >>) =>
        /\ call.phrase = <<W("positive")>> =>
              /\ call.exc = "none"
              /\ ret = (call.i.s = 0)
              /\ call.expr = <<"copysign(1, {}) == 1">>
        /\ call.phrase = <<W("negative")>> =>
              /\ call.exc = "none"
              /\ ret = (call.i.s = 1)
              /\ call.expr = <<"copysign(1, {}) == -1">>

\* the half of C25 about "negative" alone
C25_NegativeOnly ==
    (call.fn = "parse_cond" /\ call.prefix = << >> /\ call.phrase = <<W("negative")>>) =>
        call.exc = "none" /\ ret = (call.i.s = 1)

EvenIntRoundLine ==
    Bullet(<<If, W("two integers are equally close to"), x_i, Comma, TheResult, Is,
             W("the even integer closest to"), x_i>>)

\* i lies halfway between two consecutive integers
Halfway(i) == i.k = "fin" /\ i.m % 1000 = 500

\* the even one of the two integers next to a halfway i, in thousandths
EvenNeighbour(i) ==
    CHOOSE n \in {Num(i) - 500, Num(i) + 500} : (n \div 1000) % 2 = 0

\* C26 as stated: the case of the clause "If two integers are equally close
\* to x_i, the result is the even integer closest to x_i" has a condition
\* that holds exactly for the inputs halfway between two consecutive
\* integers, and a check that accepts an output iff it is the even one of
\* the two neighbouring integers.
C26_EvenIntRound ==
    (call.fn = "unary_line" /\ call.line = EvenIntRoundLine) =>
        /\ call.kind = "case"
        /\ ret.cond = Halfway(call.i)
        /\ Halfway(call.i) =>
              ret.check_result = (call.o.k = "fin" /\ Num(call.o) = EvenNeighbour(call.i))

\* the half of C26 that the code meets: on halfway inputs the condition
\* holds and the check accepts exactly the even neighbour
C26_HalfwayOnly ==
    (call.fn = "unary_line" /\ call.line = EvenIntRoundLine /\ Halfway(call.i)) =>
        /\ call.kind = "case" /\ ret.cond
        /\ ret.check_result = (call.o.k = "fin" /\ Num(call.o) = EvenNeighbour(call.i))

\* what the claims give for a sign phrase on the pair (i1, i2)
SignsHold(q, i1, i2) == IF q = SameSign THEN i1.s = i2.s ELSE i1.s # i2.s

\* C27: the condition of "If either x1_i or x2_i is P, the result is R" holds
\* for (i1, i2) iff P holds of i1 or of i2; the condition of a sign clause
\* "... and are both P" holds iff P holds of i1 and of i2 and the pair has
\* the same / different signs as the clause says.
C27_EitherBoth ==
    /\ (call.fn = "binary_line" /\ call.form = "either") =>
          /\ call.kind = "case" /\ call.pat = "EitherClause"
          /\ ret.cond = (Holds(call.p, call.i1) \/ Holds(call.p, call.i2))
    /\ (call.fn = "binary_line" /\ call.form = "sign_both") =>
          /\ call.kind = "case" /\ call.pat = "SignBothClause"
          /\ ret.cond = (/\ Holds(call.p, call.i1) /\ Holds(call.p, call.i2)
                         /\ SignsHold(call.q, call.i1, call.i2))

\* "either x1_i or x2_i is NaN" holds for (1.0, NaN)
C27_Witness ==
    /\ call.fn = "binary_line" /\ call.form = "either"
    /\ call.p = <<Code(<<"NaN">>)>>
    /\ call.i1 = One /\ call.i2 = NaN
    /\ ret.cond = TRUE

\* "different signs and are both finite" fails for (1.0, -inf)
C27_WitnessBoth ==
    /\ call.fn = "binary_line" /\ call.form = "sign_both"
    /\ call.p = <<W("finite")>> /\ call.q = DiffSigns
    /\ call.i1 = One /\ call.i2 = NegInf
    /\ ret.cond = FALSE

\* C28: the check of "the result has a positive mathematical sign" accepts an
\* output iff it is NaN, greater than 0 or +0.0, the check of "negative
\* mathematical sign" iff it is NaN, less than 0 or -0.0, whatever the inputs
\* i1, i2; any other sign word raises ValueParseError, which the parser turns
\* into a warning for the bullet.
C28_ResultSign ==
    (call.fn = "binary_line" /\ call.form \in {"sign", "sign_both"}) =>
        /\ call.r = <<W("positive")>> =>
              /\ call.kind = "case"
              /\ ret.check_result = (\/ call.o.k = "nan"
                                     \/ call.o.k # "nan" /\ Place(call.o) > 0
                                     \/ call.o = PosZero)
        /\ call.r = <<W("negative")>> =>
              /\ call.kind = "case"
              /\ ret.check_result = (\/ call.o.k = "nan"
                                     \/ call.o.k # "nan" /\ Place(call.o) < 0
                                     \/ call.o = NegZero)
        /\ call.r \notin {<<W("positive")>>, <<W("negative")>>} =>
              call.kind = "warn_value"

\* the positive-sign check rejects -0.0
C28_Witness ==
    /\ call.fn = "binary_line" /\ call.form = "sign"
    /\ call.r = <<W("positive")>> /\ call.o = NegZero
    /\ call.kind = "case"
    /\ ret.check_result = FALSE

\* another sign word has been refused
C28_WitnessWord ==
    /\ call.fn = "binary_line" /\ call.form = "sign"
    /\ call.r = <<W("nonzero")>> /\ call.kind = "warn_value"

\* the two floats are equal as numbers (neither is NaN; +0 equals -0)
NumEqual(a, b) ==
    /\ a.k # "nan" /\ b.k # "nan"
    /\ a.k = b.k
    /\ a.m = b.m
    /\ a.s = b.s \/ (a.k = "fin" /\ a.m = 0)
IsZero(a) == a.k = "fin" /\ a.m = 0

\* C24: on floating-point arrays exactly_equal is true at a position iff the
\* two elements are both NaN, or are equal as numbers and agree on being +0
\* or -0: it is false for +0 against -0 and for NaN against a number;
\* notequal is false where both are NaN and where the elements are equal as
\* numbers, +0 and -0 included.
C24_ExactlyEqual ==
    (call.fn = "exactly_equal" /\ call.dtype \in {"float32", "float64"}) =>
        \A k \in 1..Len(call.x) :
            LET a == call.x[k]
                b == call.y[k]
            IN /\ ret.exactly_equal[k] =
                      (\/ a.k = "nan" /\ b.k = "nan"
                       \/ NumEqual(a, b) /\ (IsZero(a) => a.s = b.s))
               /\ ({a, b} = {PosZero, NegZero}) => ~ret.exactly_equal[k]
               /\ (a.k = "nan" /\ b.k # "nan") => ~ret.exactly_equal[k]
               /\ ret.notequal[k] = (~(a.k = "nan" /\ b.k = "nan") /\ ~NumEqual(a, b))
               /\ ({a, b} = {PosZero, NegZero}) => ~ret.notequal[k]

\* [+0, NaN] against [-0, NaN]
C24_Witness ==
    /\ call.fn = "exactly_equal" /\ call.dtype = "float64"
    /\ call.x = <<PosZero, NaN>> /\ call.y = <<NegZero, NaN>>
    /\ ret.exactly_equal = <<FALSE, TRUE>>
    /\ ret.notequal = <<FALSE, FALSE>>

\* C29 as stated: is_integer_dtype is True for each of the eight integer
\* dtypes, the keys of dtype_ranges, and False for None, bool and the
\* floating-point dtypes.
C29_IsIntegerDtype ==
    call.fn = "is_integer_dtype" =>
        /\ ret = (call.dtype \in DOMAIN dtype_ranges)
        /\ call.dtype \in {"int8", "int16", "int32", "int64",
                           "uint8", "uint16", "uint32", "uint64"} => ret = TRUE
        /\ call.dtype \in {"None", "bool", "float32", "float64"} => ret = FALSE

\* C29 without int64: what the code meets
C29_AllButInt64 ==
    (call.fn = "is_integer_dtype" /\ call.dtype # "int64") =>
        ret = (call.dtype \in DOMAIN dtype_ranges)

\* the range of n bits
RangeOf(n, signed) ==
    IF signed THEN (-Pow2(n - 1))..(Pow2(n - 1) - 1) ELSE 0..(Pow2(n) - 1)

\* the integers of the range congruent to x modulo 2^n
Congruent(x, n, signed) == {r \in RangeOf(n, signed) : (r - x) % Pow2(n) = 0}

\* C30: int_to_dtype(x, n, signed) is the one integer congruent to x modulo
\* 2^n in [-2^(n-1), 2^(n-1) - 1] when signed and in [0, 2^n - 1] when not; it
\* is the identity on the values of that range; mock_int_dtype returns the
\* same for the dtype of that width and signedness.
C30_IntToDtype ==
    /\ call.fn = "int_to_dtype" =>
          /\ Congruent(call.x, call.n, call.signed) = {ret}
          /\ call.x \in RangeOf(call.n, call.signed) => ret = call.x
    /\ call.fn = "mock_int_dtype" =>
          /\ ret.mock_int_dtype = ret.int_to_dtype
          /\ Congruent(call.x, call.n, call.signed) = {ret.mock_int_dtype}

\* int_to_dtype(24, 4, True) is -8
C30_Witness ==
    /\ call.fn = "int_to_dtype"
    /\ call.x = 24 /\ call.n = 4 /\ call.signed
    /\ ret = -8

\* mock_int_dtype(128, int8) is -128
C30_WitnessMock ==
    /\ call.fn = "mock_int_dtype"
    /\ call.x = 128 /\ call.dtype = "int8"
    /\ ret.mock_int_dtype = -128

\* -- parse_unary_docstring / parse_binary_docstring (SpecParse)

\* the loop has taken at least one line
Processed == li >= 1 /\ pc \in {"loop", "returned", "raised"}
IsBullet(k) == r_case(docstring.lines[k]).ok
CaseText(k) == r_case(docstring.lines[k]).groups[1]

\* the patterns in the order of their registration
RegisteredOrder ==
    <<FourClause, ThreeClause112, ThreeClause122, TwoClause, AbsClause, EitherClause,
      SignClause, SignBothClause, SignUnlessClause, EvenIfClause>>
PatternMatches(n, case) == Search(RegisteredOrder[n].pattern, case).ok
\* the earliest registered pattern matching the text, 0 when none does
FirstEntry(case) ==
    IF \A n \in 1..Len(RegisteredOrder) : ~PatternMatches(n, case) THEN 0
    ELSE CHOOSE n \in 1..Len(RegisteredOrder) :
            /\ PatternMatches(n, case)
            /\ \A k \in 1..(n - 1) : ~PatternMatches(k, case)

\* the k-th line is a bullet matched by a registered pattern
Matched(k) ==
    /\ IsBullet(k)
    /\ IF parser = "unary"
       THEN \/ Search(r_unary_case, CaseText(k)).ok
            \/ Search(r_even_int_round_case, CaseText(k)).ok
       ELSE FirstEntry(CaseText(k)) # 0

\* what the matching pattern makes of the k-th line
Made(k) ==
    IF parser = "unary"
    THEN IF Search(r_unary_case, CaseText(k)).ok
         THEN from_strings(Search(r_unary_case, CaseText(k)).groups[1],
                           Search(r_unary_case, CaseText(k)).groups[2])
         ELSE Ok(even_int_round_case)
    ELSE make_case(RegisteredOrder[FirstEntry(CaseText(k))],
                   Search(RegisteredOrder[FirstEntry(CaseText(k))].pattern,
                          CaseText(k)).groups)

\* the k-th line is matched and gives a case
Kept(k) ==
    /\ Matched(k)
    /\ parser = "binary" => ~r_redundant_case(CaseText(k))
    /\ Made(k).exc = "none"
KeptUpTo(n) == {k \in 1..n : Kept(k)}

HasToken(line, tok) == \E n \in 1..Len(line) : line[n] = tok

\* C7 as stated: a bullet holding an unrecognised literal gives one warning
\* and no case, and no exception leaves the parser.
C7_UnknownLiteralWarns ==
    /\ pc # "raised"
    /\ (Processed /\ HasToken(docstring.lines[li], Code(<<"2">>))) =>
           last.kind = "warn_value"

\* C8: the case of a bullet of a binary docstring is built by the earliest
\* registered pattern that matches it, and a bullet matched by a three- or
\* four-clause pattern is not parsed by the two-clause pattern.
C8_EarliestPattern ==
    (/\ parser = "binary" /\ Processed
     /\ IsBullet(li) /\ ~r_redundant_case(CaseText(li))) =>
        /\ last.pat = (IF FirstEntry(CaseText(li)) = 0 THEN ""
                       ELSE RegisteredOrder[FirstEntry(CaseText(li))].name)
        /\ (\E n \in 1..3 : PatternMatches(n, CaseText(li))) => last.pat # "TwoClause"

\* a three-clause bullet that the two-clause pattern matches too
C8_Witness ==
    /\ parser = "binary" /\ Processed /\ IsBullet(li)
    /\ last.kind = "case" /\ last.pat = "ThreeClause112"
    /\ PatternMatches(4, CaseText(li))

\* C9 as stated: the returned list is non-empty whenever a bullet matches a
\* registered pattern, and holds as many cases as bullets matched and kept.
C9_NonEmptyWhenMatched ==
    (pc = "returned" /\ r_special_cases(docstring).ok) =>
        /\ (\E k \in 1..Len(docstring.lines) : Matched(k)) => cases # << >>
        /\ Len(cases) = Cardinality(KeptUpTo(Len(docstring.lines)))

\* C9 amended: the list holds, in the order of the bullets, one case for each
\* bullet taken so far that a registered pattern matches (and, in the binary
\* parser, that is not redundant) and whose phrases decode; it is empty when
\* every matched bullet was skipped, it is the list returned after the last
\* line, and nothing is returned when an exception escaped.
C9_CasesOfKeptBullets ==
    /\ pc \in {"loop", "returned"} =>
          /\ Len(cases) = Cardinality(KeptUpTo(li))
          /\ \A k \in KeptUpTo(li) : cases[Cardinality(KeptUpTo(k))] = Made(k).val
    /\ (pc = "returned" /\ r_special_cases(docstring).ok) => li = Len(docstring.lines)
    /\ pc = "raised" => \E k \in 1..li : Matched(k) /\ Made(k).exc = "KeyError"

\* a docstring whose only matched bullet is skipped returns the empty list
C9_Witness ==
    /\ pc = "returned" /\ li >= 1
    /\ \E k \in 1..li : Matched(k)
    /\ cases = << >>

Unmatched(k) ==
    /\ IsBullet(k)
    /\ IF parser = "unary" THEN ~Matched(k)
       ELSE ~r_redundant_case(CaseText(k)) => ~Matched(k)

\* C10 as stated: an unmatched bullet gives no case and exactly one warning,
\* or no warning when it is the "remaining cases" or the "determined by the
\* rule already stated above" boilerplate, and parsing goes on.
C10_BoilerplateSilent ==
    (Processed /\ Unmatched(li)) =>
        /\ pc # "raised"
        /\ last.kind = (IF r_remaining_case(CaseText(li)) \/ r_redundant_case(CaseText(li))
                        THEN "skip" ELSE "warn_case")

\* C10 amended: an unmatched bullet gives no case and parsing goes on; it
\* gives no warning when r_remaining_case matches it or, in the binary parser
\* only, when r_redundant_case matches it, and exactly one warning otherwise:
\* the unary parser warns about a "determined by the rule already stated
\* above" bullet.
C10_UnmatchedBullet ==
    (Processed /\ Unmatched(li)) =>
        /\ pc # "raised"
        /\ last.case = NoCond
        /\ last.kind = (IF \/ r_remaining_case(CaseText(li))
                           \/ parser = "binary" /\ r_redundant_case(CaseText(li))
                        THEN "skip" ELSE "warn_case")
        /\ last.kind = "warn_case" => warns[Len(warns)] = "warn_case"

\* the unary parser warned about the redundant bullet and parsed the next one
C10_Witness ==
    /\ parser = "unary" /\ pc \in {"loop", "returned"} /\ li = 2
    /\ Unmatched(1) /\ r_redundant_case(CaseText(1))
    /\ warns = <<"warn_case">>
    /\ last.kind = "case"

\* The docstring holds no special-cases block: the header is missing, or no
\* bullet line follows it.
NoBlock == ~docstring.special_cases \/ Len(docstring.lines) = 0

\* C17: for a docstring in which no special-cases block is found, the
\* parsers return the empty list at once: no line is taken, no warning is
\* emitted and no error is raised.
C17_NoBlockEmpty ==
    (parser # "none" /\ NoBlock /\ pc # "start") =>
        /\ pc = "returned"
        /\ cases = << >>
        /\ warns = << >>
        /\ raised = "none"
        /\ li = 0

C17_Witness ==
    /\ pc = "returned"
    /\ ~docstring.special_cases
    /\ Len(docstring.lines) = MaxLines
    /\ cases = << >> /\ warns = << >>

\* -- repeated runs of a test (Spec)

C19_WitnessPassed == again /\ pc = "done" /\ outcome = "passed" /\ Len(cases) = 2
C19_WitnessRejected == again /\ pc = "done" /\ outcome = "rejected" /\ Len(cases) = 2

\* -- the abs-like function (SpecAbs)

\* C20: with the cases NaN -> NaN, -0 -> +0, -infinity -> +infinity and the
\* input [NaN, -0.0, -inf, 2.0, -3.0], the output [NaN, +0.0, +inf, 2.0, 3.0]
\* never raises an assertion and ends passed with good_example true, each of
\* the first three elements checked against its own case; the output that
\* differs by -0.0 at the second element ends failed at that element.
C20_AbsScenario ==
    /\ res = AbsReference =>
          /\ outcome \in {"running", "passed"}
          /\ pc = "done" =>
                /\ outcome = "passed" /\ good_example
                /\ asserted = <<[idx |-> 1, ci |-> 1], [idx |-> 2, ci |-> 2],
                                [idx |-> 3, ci |-> 3]>>
    /\ (res = AbsBroken /\ pc = "done") =>
          /\ outcome = "failed"
          /\ idx = 2
          /\ asserted = <<[idx |-> 1, ci |-> 1], [idx |-> 2, ci |-> 2]>>

\* the run on the output with -0.0 has ended
C20_Witness ==
    /\ cases = AbsCases /\ x1 = AbsInput /\ res = AbsBroken
    /\ pc = "done" /\ outcome = "failed" /\ idx = 2

\* the run on the reference output has ended
C20_WitnessReference ==
    /\ cases = AbsCases /\ x1 = AbsInput /\ res = AbsReference
    /\ pc = "done" /\ outcome = "passed" /\ good_example

\* -- broadcast_shapes (SpecBroadcast)

\* the dimension of shape s at j places from its end, 1 beyond its start
Aligned(s, j) == IF j < Len(s) THEN s[Len(s) - j] ELSE 1

\* the dimensions at j places from the end can be broadcast together
Compatible(s1, s2, j) ==
    Aligned(s1, j) = Aligned(s2, j) \/ Aligned(s1, j) = 1 \/ Aligned(s2, j) = 1

\* what the claim gives for two shapes: the broadcast shape, or BroadcastError
Broadcast(s1, s2) ==
    LET n == IF Len(s1) >= Len(s2) THEN Len(s1) ELSE Len(s2)
    IN IF \E j \in 0..(n - 1) : ~Compatible(s1, s2, j)
       THEN [exc |-> "BroadcastError", shape |-> << >>]
       ELSE [exc |-> "none",
             shape |-> [k \in 1..n |-> IF Aligned(s1, n - k) = 1 THEN Aligned(s2, n - k)
                                       ELSE Aligned(s1, n - k)]]

C23_Outcome ==
    /\ bcast.pc = "returned" =>
          Broadcast(bcast.shape1, bcast.shape2) = [exc |-> "none", shape |-> bcast.shape]
    /\ bcast.pc = "raised" =>
          Broadcast(bcast.shape1, bcast.shape2).exc = "BroadcastError"
    /\ bcast.pc # "idle" =>
          Broadcast(bcast.shape1, bcast.shape2) = Broadcast(bcast.shape2, bcast.shape1)

C23_Done == bcast.pc \in {"returned", "raised"}

\* C23: broadcast_shapes aligns the two shapes at their trailing dimensions,
\* takes a missing leading dimension as 1 and returns at each place the
\* dimension that is not 1 (or the common one); it raises BroadcastError iff
\* two aligned dimensions differ and neither is 1; the outcome is the same
\* for the two orders of the arguments; and every call comes to its end.
C23_BroadcastShapes == [](C23_Outcome) /\ <>(C23_Done)

\* (2, 1, 3) and (2, 1) broadcast to (2, 2, 3)
C23_Witness ==
    /\ bcast.pc = "returned"
    /\ bcast.shape1 = <<2, 1, 3>> /\ bcast.shape2 = <<2, 1>>
    /\ bcast.shape = <<2, 2, 3>>

\* (3, 2) and (3,) cannot be broadcast: dimensions are prepended, not appended
C23_WitnessRaised ==
    /\ bcast.pc = "raised"
    /\ bcast.shape1 = <<3, 2>> /\ bcast.shape2 = <<3>>

\* -- the collection of the tests (SpecDriver)

InUnary(k) == \E n \in 1..Len(unary_params) : unary_params[n].name = k
InBinary(k) == \E n \in 1..Len(binary_params) : binary_params[n].name = k
FirstIsX(k) == Len(stubs[k].param_names) >= 1 /\ stubs[k].param_names[1] = "x"
FirstAreX1X2(k) ==
    /\ Len(stubs[k].param_names) >= 2
    /\ stubs[k].param_names[1] = "x1" /\ stubs[k].param_names[2] = "x2"
\* the docstring of the k-th stub parses to at least one case
ParsesToCases(kind, k) ==
    /\ stubs[k].has_doc
    /\ parse_docstring(kind, stubs[k].doc).exc = "none"
    /\ parse_docstring(kind, stubs[k].doc).val # << >>

\* C11 as stated: the docstring of a stub that the array module does not
\* implement is not parsed, and its test parameter, if any, is marked skip.
C11_UnsupportedSkipped ==
    \A k \in 1..Len(stubs) :
        ~stubs[k].implemented =>
            /\ parse_calls[k] = "none"
            /\ \A n \in 1..Len(unary_params) :
                  unary_params[n].name = k => unary_params[n].marks = <<"skip">>
            /\ \A n \in 1..Len(binary_params) :
                  binary_params[n].name = k => binary_params[n].marks = <<"skip">>

\* C18: a stub taken by the loop is in the unary list iff its first parameter
\* is x and its docstring parses to at least one case, in the binary list iff
\* its first two parameters are x1 and x2 and its docstring parses to at least
\* one case; a stub of another shape is warned about and is in neither list;
\* no stub is in both lists, twice in a list or there with no case.
C18_Classification ==
    /\ \A k \in 1..Len(stubs) :
          /\ InUnary(k) <=> (FirstIsX(k) /\ ParsesToCases("unary", k))
          /\ InBinary(k) <=> (FirstAreX1X2(k) /\ ParsesToCases("binary", k))
          /\ (~FirstIsX(k) /\ ~FirstAreX1X2(k)) =>
                /\ \E n \in 1..Len(dwarns) : dwarns[n] = k
                /\ ~InUnary(k) /\ ~InBinary(k)
          /\ ~(InUnary(k) /\ InBinary(k))
    /\ \A m, n \in 1..Len(unary_params) :
          m < n => unary_params[m].name < unary_params[n].name
    /\ \A m, n \in 1..Len(binary_params) :
          m < n => binary_params[m].name < binary_params[n].name
    /\ \A n \in 1..Len(unary_params) : unary_params[n].cases # << >>
    /\ \A n \in 1..Len(binary_params) : binary_params[n].cases # << >>

\* a stub with the parameter x whose docstring gives no case is left out,
\* next to a stub that is taken
C18_Witness ==
    /\ dpc = "done" /\ Len(stubs) = 2
    /\ Len(unary_params) + Len(binary_params) = 1
    /\ \E k \in 1..2 :
          /\ FirstIsX(k) /\ stubs[k].has_doc /\ r_special_cases(stubs[k].doc).ok
          /\ ~InUnary(k)

====
